---------------------------- MODULE Spec2Model ----------------------------
(***************************************************************************)
(* A model of the H3-tile geocoding SDK (class GeoSDKH3, geocoder-h3.ts).  *)
(*                                                                         *)
(* The SDK object's fields are the variables.  Every public async method   *)
(* is a call that runs in a call slot: the synchronous prefix of the       *)
(* method is the Start action, and every `await this.conn.query(...)` is   *)
(* one further action that applies the query to the backend and resumes    *)
(* the method up to its next await.  A query can fail (the backend throws) *)
(* wherever the code awaits one.                                           *)
(*                                                                         *)
(* Text is a sequence of Unicode code points.  Coordinates are integers in *)
(* thousandths of a degree.                                                *)
(***************************************************************************)
EXTENDS Integers, Sequences, FiniteSets, TLC

(***************************************************************************)
(* Bounds of the model.                                                    *)
(***************************************************************************)
NumTiles == 52      \* rows of tile_index.parquet at the default URL (more than MAX_TILES)
NumCustomTiles == 3 \* rows of tile_index.parquet at the custom URL
MaxNow   == 1       \* Date.now() takes the values 0..MaxNow

(***************************************************************************)
(* Text helpers.                                                           *)
(***************************************************************************)
Range(s) == {s[i] : i \in 1..Len(s)}

arabicStart  == 1632     \* U+0660 ARABIC-INDIC DIGIT ZERO
persianStart == 1776     \* U+06F0 EXTENDED ARABIC-INDIC DIGIT ZERO
asciiZero    == 48       \* String(0) is "0", U+0030

\* String(d.charCodeAt(0) - start) for a digit glyph d of the block at start
DigitOf(c, start) == asciiZero + (c - start)

toWesternDigits(str) ==
    LET s1 == [i \in 1..Len(str) |->
                 IF str[i] \in arabicStart..(arabicStart + 9)
                 THEN DigitOf(str[i], arabicStart) ELSE str[i]]
    IN  [i \in 1..Len(s1) |->
           IF s1[i] \in persianStart..(persianStart + 9)
           THEN DigitOf(s1[i], persianStart) ELSE s1[i]]

\* String.prototype.trim: white space is removed from both ends
WhiteSpace == {9, 10, 13, 32}

RECURSIVE TrimLeft(_)
TrimLeft(s) ==
    IF s # <<>> /\ Head(s) \in WhiteSpace THEN TrimLeft(Tail(s)) ELSE s

RECURSIVE TrimRight(_)
TrimRight(s) ==
    IF s # <<>> /\ s[Len(s)] \in WhiteSpace
    THEN TrimRight(SubSeq(s, 1, Len(s) - 1)) ELSE s

Trim(s) == TrimRight(TrimLeft(s))

\* str.replace(/'/g, "''")
RECURSIVE EscapeQuotes(_)
EscapeQuotes(s) ==
    IF s = <<>> THEN <<>>
    ELSE IF Head(s) = 39 THEN <<39, 39>> \o EscapeQuotes(Tail(s))
    ELSE <<Head(s)>> \o EscapeQuotes(Tail(s))

(***************************************************************************)
(* The data served under a base URL.                                       *)
(***************************************************************************)
DEFAULT_DATA_URL == "default"
CUSTOM_URL       == "custom"

\* options.region / TileInfo.region_*: compared for equality only
NoRegion == ""

\* the row of tile_index.parquet for tile i
TileRow(i) ==
    [h3_tile      |-> i,
     addr_count   |-> 10 + i,
     min_lon      |-> 40000 + 200 * i,
     max_lon      |-> 40200 + 200 * i,
     min_lat      |-> 20000,
     max_lat      |-> 21000,
     file_size_kb |-> 100 + ((i * 7) % 13),
     region_ar    |-> IF i = 1 THEN "ar:Riyadh" ELSE "ar:Makkah",
     region_en    |-> IF i = 1 THEN "Riyadh" ELSE "Makkah"]

\* tile_index.parquet as served under a base URL: a custom deployment has a
\* catalog of its own
TileIndexFile(base) ==
    [i \in 1..(IF base = CUSTOM_URL THEN NumCustomTiles ELSE NumTiles) |-> TileRow(i)]

\* the rows of postcode_index.parquet; tiles is the DuckDB list as the
\* Arrow row delivers it (a JS array, a vector, an iterable, or null)
PC12 == <<49, 50>>
PC34 == <<51, 52>>
PC56 == <<53, 54>>

PostcodeIndexFile ==
    << [postcode |-> PC12, tiles |-> [kind |-> "vector", items |-> <<1, 2>>], addr_count |-> 3],
       [postcode |-> PC34, tiles |-> [kind |-> "array",  items |-> <<3>>],    addr_count |-> 1],
       [postcode |-> PC56, tiles |-> [kind |-> "null",   items |-> <<>>],     addr_count |-> 0] >>

\* the address rows of the tile files (tiles/<h3_tile>.parquet); NULL is <<>>
NULL == <<>>
NUM7 == <<55>>
NUM8 == <<56>>

AddrIds == 1..4

Row(id) ==
    CASE id = 1 -> [addr_id |-> 1, tile |-> 1, longitude |-> 40300, latitude |-> 20500,
                    postcode |-> PC12, number |-> NUM7, street |-> <<97>>,
                    full_address_en |-> <<75, 105, 110, 103, 32, 115, 116>>,      \* "King st"
                    full_address_ar |-> <<1588, 1575, 1585, 1593>>]
      [] id = 2 -> [addr_id |-> 2, tile |-> 1, longitude |-> 40300, latitude |-> 20600,
                    postcode |-> PC12, number |-> NUM8, street |-> <<98>>,
                    full_address_en |-> <<79, 108, 100, 32, 115, 116>>,           \* "Old st"
                    full_address_ar |-> NULL]
      [] id = 3 -> [addr_id |-> 3, tile |-> 2, longitude |-> 40500, latitude |-> 20500,
                    postcode |-> PC12, number |-> NUM7, street |-> <<97>>,
                    full_address_en |-> <<75, 105, 110, 103, 32, 114, 100>>,      \* "King rd"
                    full_address_ar |-> <<1588, 1575, 1585, 1593, 32, 1633, 1634>>]
      [] OTHER  -> [addr_id |-> 4, tile |-> 3, longitude |-> 40700, latitude |-> 20500,
                    postcode |-> PC34, number |-> NUM7, street |-> <<99>>,
                    full_address_en |-> NULL,
                    full_address_ar |-> <<1591, 1585, 1610, 1602>>]

\* the rows read_parquet([...]) reads for a list of tile files: a file that is
\* listed twice is read twice, so a row is <<place in the list, addr_id>>
RowsOf(tiles) ==
    {r \in (1..Len(tiles)) \X AddrIds : Row(r[2]).tile = tiles[r[1]]}

(***************************************************************************)
(* The state of one GeoSDKH3 object, its backend, and the calls in flight. *)
(***************************************************************************)
VARIABLES
    ctorUrl,        \* the dataUrl the constructor was given (never changes)
    dataUrl,        \* this.config.dataUrl
    initialized,    \* this.initialized
    ftsAvailable,   \* this.ftsAvailable
    tileIndex,      \* this.tileIndex: sequence of TileInfo
    postcodeIndex,  \* this.postcodeIndex: postcode -> PostcodeInfo
    loadedTiles,    \* this.loadedTiles
    conn,           \* this.conn: "null", "open" or "closed"
    views,          \* the views of the backend instance behind this.conn
    tables,         \* its tables: name -> [tiles, field, indexed]
    now,            \* Date.now()
    calls,          \* the call slots
    indexBase,      \* the base URL this.tileIndex was loaded from ("" before)
    regionIndex,    \* region SDK (GeoSDKLazy, GeoSDK): this.regionIndex, by region_ar
    loadedRegions,  \* region SDK: this.loadedRegions
    addresses,      \* region SDK: the addresses table, as the number of times
                    \* each region's file was inserted into it
    regionCalls     \* region SDK: the call slots

vars == <<ctorUrl, dataUrl, initialized, ftsAvailable, tileIndex, postcodeIndex,
          loadedTiles, conn, views, tables, now, calls, indexBase,
          regionIndex, loadedRegions, addresses, regionCalls>>

regionVars == <<regionIndex, loadedRegions, addresses, regionCalls>>

sdkVars == <<dataUrl, initialized, ftsAvailable, tileIndex, postcodeIndex,
             loadedTiles, conn, views, tables, indexBase>>

NoBbox == <<>>

\* the arguments of a call (every method reads the fields it has)
NoArgs ==
    [text |-> <<>>, bbox |-> NoBbox, region |-> NoRegion, limit |-> 0,
     number |-> <<>>, lat |-> 0, lon |-> 0, radius |-> 0, includeNeighbors |-> FALSE,
     detailLevel |-> ""]

\* a query handed to this.conn.query, as the backend sees it
Query(kind, base, tiles) == [k |-> kind, base |-> base, tiles |-> tiles]

IdleCall ==
    [op |-> "none", pc |-> "idle", a |-> NoArgs,
     base |-> "", tiles |-> <<>>, table |-> -1, isArabic |-> FALSE, clean |-> <<>>,
     limit |-> 0, pred |-> <<>>, numPred |-> <<>>, h3Tile |-> 0,
     res |-> <<>>, out |-> "none", via |-> "none", err |-> "none",
     sent |-> <<>>, failed |-> {}, rankedFailed |-> FALSE, loaded0 |-> {},
     columns |-> {}, fields |-> {}]

Free(c) == calls[c].pc = "idle"

\* the method returns `rows`
Returns(call, rows) == [call EXCEPT !.pc = "done", !.out = "ok", !.res = rows]

\* the method throws
Throws(call, e) == [call EXCEPT !.pc = "done", !.out = "error", !.err = e, !.res = <<>>]

\* the queries of a call, in the order it sent them
Send(call, q) == [call EXCEPT !.sent = Append(@, q)]

Sent(call, kinds) == SelectSeq(call.sent, LAMBDA q : q.k \in kinds)


(***************************************************************************)
(* Construction: new GeoSDKH3({dataUrl}) with a custom URL or without one. *)
(***************************************************************************)
Calls == {1}

\* no region SDK object is in use
NoRegionSdk ==
    /\ regionIndex = <<>>
    /\ loadedRegions = {}
    /\ addresses = <<>>
    /\ regionCalls = <<>>

Init ==
    /\ ctorUrl \in {CUSTOM_URL, DEFAULT_DATA_URL}
    /\ dataUrl = ctorUrl
    /\ initialized = FALSE
    /\ ftsAvailable = FALSE
    /\ tileIndex = <<>>
    /\ postcodeIndex = <<>>
    /\ loadedTiles = {}
    /\ conn = "null"
    /\ views = {}
    /\ tables = <<>>
    /\ now = 0
    /\ calls = [c \in Calls |-> IdleCall]
    /\ indexBase = ""
    /\ NoRegionSdk

\* Date.now() advances
Tick ==
    /\ now < MaxNow
    /\ now' = now + 1
    /\ UNCHANGED <<regionVars, ctorUrl, sdkVars, calls>>

(***************************************************************************)
(* initialize()                                                            *)
(***************************************************************************)
\* loaded0 remembers this.loadedTiles as the call found it
NewCall(opName, args) == [IdleCall EXCEPT !.op = opName, !.a = args, !.loaded0 = loadedTiles]

\* if (this.initialized) return;  otherwise run up to the first await
InitializeStart(c) ==
    /\ Free(c)
    /\ calls' = [calls EXCEPT ![c] =
                   IF initialized THEN Returns(NewCall("initialize", NoArgs), <<>>)
                   ELSE [NewCall("initialize", NoArgs) EXCEPT !.pc = "i_wasm"]]
    /\ UNCHANGED <<regionVars, ctorUrl, sdkVars, now>>

\* Step 1: new AsyncDuckDB, instantiate, connect: a fresh backend instance
InitWasm(c) ==
    /\ calls[c].pc = "i_wasm"
    /\ \E ok \in BOOLEAN :
         IF ok
         THEN /\ conn' = "open"
              /\ views' = {}
              /\ tables' = <<>>
              /\ calls' = [calls EXCEPT ![c] =
                             Send([@ EXCEPT !.pc = "i_spatial"], Query("spatial", "", <<>>))]
         ELSE /\ calls' = [calls EXCEPT ![c] = Throws(@, "wasm")]
              /\ UNCHANGED <<conn, views, tables>>
    /\ UNCHANGED <<regionVars, ctorUrl, dataUrl, initialized, ftsAvailable, tileIndex,
                   postcodeIndex, loadedTiles, now, indexBase>>

\* Steps 2 and 3: INSTALL spatial; LOAD spatial;  INSTALL h3 ...; LOAD h3;
InitExtension(c) ==
    /\ calls[c].pc \in {"i_spatial", "i_h3"}
    /\ \E ok \in BOOLEAN :
         calls' = [calls EXCEPT ![c] =
            IF ~ok THEN Throws(@, "extension")
            ELSE IF @.pc = "i_spatial"
                 THEN Send([@ EXCEPT !.pc = "i_h3"], Query("h3", "", <<>>))
                 ELSE Send([@ EXCEPT !.pc = "i_fts"], Query("fts", "", <<>>))]
    /\ UNCHANGED <<regionVars, ctorUrl, sdkVars, now>>

\* Step 4: try { INSTALL fts; LOAD fts; ftsAvailable = true } catch { = false }
\* then baseUrl = this.config.dataUrl and the tile index is requested from it
InitFts(c) ==
    /\ calls[c].pc = "i_fts"
    /\ \E ok \in BOOLEAN : ftsAvailable' = ok
    /\ calls' = [calls EXCEPT ![c] =
                   Send([@ EXCEPT !.pc = "i_tiles", !.base = dataUrl],
                        Query("tile_index", dataUrl, <<>>))]
    /\ UNCHANGED <<regionVars, ctorUrl, dataUrl, initialized, tileIndex, postcodeIndex,
                   loadedTiles, conn, views, tables, now, indexBase>>

\* indexResult.toArray().map(row => ({...}))
TileInfoOf(row) ==
    [h3_tile |-> row.h3_tile, addr_count |-> row.addr_count,
     min_lon |-> row.min_lon, max_lon |-> row.max_lon,
     min_lat |-> row.min_lat, max_lat |-> row.max_lat,
     file_size_kb |-> row.file_size_kb,
     region_ar |-> row.region_ar, region_en |-> row.region_en]

\* this.tileIndex is an array of references to TileInfo objects, which no code
\* assigns to afterwards: the array is modelled as the sequence of the tiles'
\* ids and Tile(id) is the object
LoadTileIndex(file) == [i \in 1..Len(file) |-> file[i].h3_tile]

Tile(id) == TileInfoOf(TileRow(id))

\* the catch of the first tile_index query: is a second attempt made
TriesFallback(baseUrl) == baseUrl # DEFAULT_DATA_URL

\* this.config.dataUrl after the fallback attempt succeeded
FallbackKeepsConfig(cur) == cur

FallbackDataUrl(cur) == DEFAULT_DATA_URL

\* Step 5: the tile index from baseUrl
InitTiles(c) ==
    /\ calls[c].pc = "i_tiles"
    /\ \E ok \in BOOLEAN :
         IF ok
         THEN /\ tileIndex' = LoadTileIndex(TileIndexFile(calls[c].base))
              /\ indexBase' = calls[c].base
              /\ calls' = [calls EXCEPT ![c] =
                             Send([@ EXCEPT !.pc = "i_postcodes"],
                                  Query("postcode_index", @.base, <<>>))]
         ELSE /\ calls' = [calls EXCEPT ![c] =
                             IF TriesFallback(@.base)
                             THEN Send([@ EXCEPT !.pc = "i_tiles2"],
                                       Query("tile_index", DEFAULT_DATA_URL, <<>>))
                             ELSE Throws(@, "tile_index")]
              /\ UNCHANGED <<tileIndex, indexBase>>
    /\ UNCHANGED <<regionVars, ctorUrl, dataUrl, initialized, ftsAvailable, postcodeIndex,
                   loadedTiles, conn, views, tables, now>>

\* Step 5, second attempt: the tile index from DEFAULT_DATA_URL
InitTilesFallback(c) ==
    /\ calls[c].pc = "i_tiles2"
    /\ \E ok \in BOOLEAN :
         IF ok
         THEN /\ tileIndex' = LoadTileIndex(TileIndexFile(DEFAULT_DATA_URL))
              /\ indexBase' = DEFAULT_DATA_URL
              /\ dataUrl' = FallbackDataUrl(dataUrl)
              /\ calls' = [calls EXCEPT ![c] =
                             Send([@ EXCEPT !.pc = "i_postcodes", !.base = DEFAULT_DATA_URL],
                                  Query("postcode_index", DEFAULT_DATA_URL, <<>>))]
         ELSE /\ calls' = [calls EXCEPT ![c] = Throws(@, "tile_index_both")]
              /\ UNCHANGED <<tileIndex, dataUrl, indexBase>>
    /\ UNCHANGED <<regionVars, ctorUrl, initialized, ftsAvailable, postcodeIndex,
                   loadedTiles, conn, views, tables, now>>

\* the DuckDB list of a postcode row as a JavaScript array
TilesArray(t) ==
    IF t.kind \in {"array", "vector", "object"} THEN t.items ELSE <<>>

\* this.postcodeIndex.set(row.postcode, {...})
MapSet(map, key, value) ==
    [k \in DOMAIN map \cup {key} |-> IF k = key THEN value ELSE map[k]]

RECURSIVE LoadPostcodes(_, _)
LoadPostcodes(map, rows) ==
    IF rows = <<>> THEN map
    ELSE LoadPostcodes(
            MapSet(map, Head(rows).postcode,
                   [postcode |-> Head(rows).postcode,
                    tiles |-> TilesArray(Head(rows).tiles),
                    addr_count |-> Head(rows).addr_count]),
            Tail(rows))

\* Step 6: the postcode index from actualBaseUrl; a failure is only logged
InitPostcodes(c) ==
    /\ calls[c].pc = "i_postcodes"
    /\ \E ok \in BOOLEAN :
         postcodeIndex' = IF ok THEN LoadPostcodes(postcodeIndex, PostcodeIndexFile)
                          ELSE postcodeIndex
    /\ calls' = [calls EXCEPT ![c] =
                   Send([@ EXCEPT !.pc = "i_view1"], Query("world_countries", @.base, <<>>))]
    /\ UNCHANGED <<regionVars, ctorUrl, dataUrl, initialized, ftsAvailable, tileIndex,
                   loadedTiles, conn, views, tables, now, indexBase>>

ViewAt(pc) ==
    CASE pc = "i_view1" -> "world_countries"
      [] pc = "i_view2" -> "sa_regions"
      [] OTHER          -> "sa_districts"

\* CREATE VIEW <name> AS SELECT * FROM read_parquet('<actualBaseUrl>/<name>_simple.parquet')
\* three times, then this.initialized = true; a view of the name in the
\* backend instance makes the statement fail
InitView(c) ==
    /\ calls[c].pc \in {"i_view1", "i_view2", "i_view3"}
    /\ LET call == calls[c]
           name == ViewAt(call.pc)
       IN \E ok \in BOOLEAN :
            IF ok /\ name \notin views
            THEN /\ views' = views \cup {name}
                 /\ initialized' = IF call.pc = "i_view3" THEN TRUE ELSE initialized
                 /\ calls' = [calls EXCEPT ![c] =
                      CASE call.pc = "i_view1" ->
                             Send([@ EXCEPT !.pc = "i_view2"], Query("sa_regions", @.base, <<>>))
                        [] call.pc = "i_view2" ->
                             Send([@ EXCEPT !.pc = "i_view3"], Query("sa_districts", @.base, <<>>))
                        [] OTHER -> Returns(@, <<>>)]
            ELSE /\ calls' = [calls EXCEPT ![c] =
                                Throws(@, IF ok THEN "view_exists" ELSE "view")]
                 /\ UNCHANGED <<views, initialized>>
    /\ UNCHANGED <<regionVars, ctorUrl, dataUrl, ftsAvailable, tileIndex, postcodeIndex,
                   loadedTiles, conn, tables, now, indexBase>>

(***************************************************************************)
(* close()                                                                 *)
(***************************************************************************)
\* conn.close(); db.terminate() (the backend instance and what it held are
\* gone); this.initialized = false; this.loadedTiles.clear()
Close(c) ==
    /\ Free(c)
    /\ conn' = IF conn = "null" THEN "null" ELSE "closed"
    /\ views' = {}
    /\ tables' = <<>>
    /\ initialized' = FALSE
    /\ loadedTiles' = {}
    /\ calls' = [calls EXCEPT ![c] = Returns(NewCall("close", NoArgs), <<>>)]
    /\ UNCHANGED <<regionVars, ctorUrl, dataUrl, ftsAvailable, tileIndex, postcodeIndex, now, indexBase>>

\* if (!this.initialized || !this.conn) throw
NotInitializedNoConn == conn = "null"

NotInitialized == ~initialized \/ conn = "null"

\* the inputs tried: one of them is enough where the call is refused at once
Inputs(S) == IF NotInitialized THEN {CHOOSE x \in S : TRUE} ELSE S


(***************************************************************************)
(* Result ordering: ORDER BY ... LIMIT n.  SQL leaves the order of rows    *)
(* with equal keys open, so a query has a set of possible answers.         *)
(***************************************************************************)
RECURSIVE Perms(_)
Perms(S) ==
    IF S = {} THEN {<<>>}
    ELSE UNION {{<<x>> \o p : p \in Perms(S \ {x})} : x \in S}

Min(a, b) == IF a <= b THEN a ELSE b

\* the answers of: rows S, ordered so that MayPrecede holds along the list, LIMIT n
\* and each row given by its addr_id
OrderLimit(S, MayPrecede(_, _), n) ==
    {[k \in 1..Min(n, Len(p)) |-> p[k][2]] :
        p \in {q \in Perms(S) :
                 \A i \in 1..Len(q) : \A j \in i..Len(q) : MayPrecede(q[i][2], q[j][2])}}

(***************************************************************************)
(* Tile selection of geocode()                                             *)
(***************************************************************************)
MAX_TILES == 50

\* t.min_lon <= maxLon && t.max_lon >= minLon && t.min_lat <= maxLat && t.max_lat >= minLat
\* with bbox = [minLat, minLon, maxLat, maxLon]
BboxOverlapStrict(t, bbox) ==
    /\ Tile(t).min_lon < bbox[4]
    /\ Tile(t).max_lon > bbox[2]
    /\ Tile(t).min_lat < bbox[3]
    /\ Tile(t).max_lat > bbox[1]

BboxOverlap(t, bbox) ==
    /\ Tile(t).min_lon <= bbox[4]
    /\ Tile(t).max_lon >= bbox[2]
    /\ Tile(t).min_lat <= bbox[3]
    /\ Tile(t).max_lat >= bbox[1]

RegionMatch(t, region) == Tile(t).region_ar = region \/ Tile(t).region_en = region

\* Array.prototype.filter returns a new array; `tilesToQuery = this.tileIndex`
\* is the catalog array itself (alias)
GeocodeCandidatesRegionFirst(idx, opts) ==
    IF opts.region # NoRegion
    THEN [alias |-> FALSE, list |-> SelectSeq(idx, LAMBDA t : RegionMatch(t, opts.region))]
    ELSE IF opts.bbox # NoBbox
    THEN [alias |-> FALSE, list |-> SelectSeq(idx, LAMBDA t : BboxOverlap(t, opts.bbox))]
    ELSE [alias |-> TRUE, list |-> idx]

GeocodeCandidates(idx, opts) ==
    IF opts.bbox # NoBbox
    THEN [alias |-> FALSE, list |-> SelectSeq(idx, LAMBDA t : BboxOverlap(t, opts.bbox))]
    ELSE IF opts.region # NoRegion
    THEN [alias |-> FALSE, list |-> SelectSeq(idx, LAMBDA t : RegionMatch(t, opts.region))]
    ELSE [alias |-> TRUE, list |-> idx]

\* Array.prototype.sort((a, b) => a.file_size_kb - b.file_size_kb): stable, so
\* the elements of the least size come first, in the order they had, then the
\* elements of the next size, ...
SetMin(S) == CHOOSE x \in S : \A y \in S : x <= y

RECURSIVE SortFrom(_, _)
SortFrom(list, sizes) ==
    IF sizes = {} THEN <<>>
    ELSE SelectSeq(list, LAMBDA t : Tile(t).file_size_kb = SetMin(sizes))
         \o SortFrom(list, sizes \ {SetMin(sizes)})

SortBySizeNone(list) == list

SortBySize(list) == SortFrom(list, {Tile(list[i]).file_size_kb : i \in 1..Len(list)})

CeilDiv(a, b) == (a + b - 1) \div b

\* tilesToQuery.filter((_, i) => i % step === 0)   (i counts from 0)
EveryNthPrefix(list, step) == list

EveryNth(list, step) ==
    LET keep == {i \in 1..Len(list) : (i - 1) % step = 0}
    IN  [k \in 1..Cardinality(keep) |-> list[(k - 1) * step + 1]]

Slice(list, n) == SubSeq(list, 1, Min(n, Len(list)))

\* is the array that .sort() reorders in place the catalog array this.tileIndex
SortHitsCatalogAlways(cand) == TRUE

SortHitsCatalog(cand) == cand.alias

\* the MAX_TILES cap: list is what is queried, catalog is this.tileIndex after it
GeocodeCap(cand, opts, idx) ==
    IF Len(cand.list) > MAX_TILES
    THEN IF opts.bbox # NoBbox \/ opts.region # NoRegion
         THEN [list    |-> Slice(SortBySize(cand.list), MAX_TILES),
               catalog |-> IF SortHitsCatalog(cand) THEN SortBySize(idx) ELSE idx]
         ELSE [list    |-> Slice(EveryNth(cand.list, CeilDiv(Len(cand.list), MAX_TILES)),
                                 MAX_TILES),
               catalog |-> idx]
    ELSE [list |-> cand.list, catalog |-> idx]

\* tilesToQuery.map(t => `'${baseUrl}/tiles/${t.h3_tile}.parquet'`)
TileIds(list) == [i \in 1..Len(list) |-> Tile(list[i]).h3_tile]

(***************************************************************************)
(* Text search as the backend evaluates it                                 *)
(***************************************************************************)
\* /[\u0600-\u06FF]/.test(cleanAddress)
IsArabic(s) == \E i \in 1..Len(s) : s[i] >= 1536 /\ s[i] <= 1791

AddressField(isAr) == IF isAr THEN "full_address_ar" ELSE "full_address_en"

FieldOf(id, field) ==
    IF field = "full_address_ar" THEN Row(id).full_address_ar ELSE Row(id).full_address_en

\* UPPER(...)
Upper(s) == [i \in 1..Len(s) |-> IF s[i] \in 97..122 THEN s[i] - 32 ELSE s[i]]

\* cleanAddress.split(/[\s,<U+060C>]+/): the pieces between runs of delimiters
Delimiters == WhiteSpace \cup {44, 1548}

RECURSIVE SplitFrom(_, _, _)
SplitFrom(s, i, cur) ==
    IF i > Len(s) THEN <<cur>>
    ELSE IF s[i] \in Delimiters
         THEN IF i > 1 /\ s[i - 1] \in Delimiters
              THEN SplitFrom(s, i + 1, cur)
              ELSE <<cur>> \o SplitFrom(s, i + 1, <<>>)
         ELSE SplitFrom(s, i + 1, Append(cur, s[i]))

Split(s) == SplitFrom(s, 1, <<>>)

MIN_TERM == 2
MAX_TERMS == 5

\* .filter(term => term.length >= 2).slice(0, 5)
SearchTerms(clean) ==
    Slice(SelectSeq(Split(clean), LAMBDA term : Len(term) >= MIN_TERM), MAX_TERMS)

\* term is a substring of text
Contains(text, term) ==
    \E i \in 0..(Len(text) - Len(term)) : SubSeq(text, i + 1, i + Len(term)) = term

\* text LIKE pattern: in the pattern % stands for any run of characters and _
\* for any one character; there is no escape character
PERCENT == 37
UNDERSCORE == 95

RECURSIVE Like(_, _)
Like(text, pattern) ==
    IF pattern = <<>> THEN text = <<>>
    ELSE IF Head(pattern) = PERCENT
         THEN \E k \in 0..Len(text) : Like(SubSeq(text, k + 1, Len(text)), Tail(pattern))
         ELSE /\ text # <<>>
              /\ (Head(pattern) = UNDERSCORE \/ Head(pattern) = Head(text))
              /\ Like(Tail(text), Tail(pattern))

\* field LIKE '%term%'  /  UPPER(field) LIKE UPPER('%term%')
LikeTerm(text, term) == Like(text, <<PERCENT>> \o term \o <<PERCENT>>)

\* the OR of the LIKE conditions, or TRUE when there is no term
ContainsAny(id, field, isAr, terms) ==
    IF terms = <<>> THEN TRUE
    ELSE \E k \in 1..Len(terms) :
           IF isAr THEN LikeTerm(FieldOf(id, field), terms[k])
           ELSE LikeTerm(Upper(FieldOf(id, field)), Upper(terms[k]))

\* JACCARD(a, b): |chars(a) /\ chars(b)| / |chars(a) \/ chars(b)|, as a pair
Jaccard(a, b) ==
    <<Cardinality(Range(a) \cap Range(b)), Cardinality(Range(a) \cup Range(b))>>

FracGeq(x, y) == x[1] * y[2] >= y[1] * x[2]

JaccardOf(id, field, isAr, clean) ==
    IF isAr THEN Jaccard(clean, FieldOf(id, field))
    ELSE Jaccard(Upper(clean), Upper(FieldOf(id, field)))

\* the answers of the JACCARD query of geocode() over the tile files
FallbackAnswers(tiles, field, isAr, clean, limit) ==
    LET hits == {r \in RowsOf(tiles) :
                   /\ FieldOf(r[2], field) # NULL
                   /\ ContainsAny(r[2], field, isAr, SearchTerms(clean))}
    IN  OrderLimit(hits,
                   LAMBDA x, y : FracGeq(JaccardOf(x, field, isAr, clean),
                                         JaccardOf(y, field, isAr, clean)),
                   limit)

\* match_bm25(addr_id, query, fields := field): the number of query words the
\* indexed field holds (words compared without case); NULL when there is none
Words(s) == Range(SelectSeq(Split(Upper(s)), LAMBDA w : w # <<>>))

Bm25(id, field, clean) == Cardinality(Words(clean) \cap Words(FieldOf(id, field)))

\* the answers of the BM25 query over a search table built from `tiles`
RankedAnswers(tiles, field, clean, limit) ==
    LET hits == {r \in RowsOf(tiles) :
                   FieldOf(r[2], field) # NULL /\ Bm25(r[2], field, clean) > 0}
    IN  OrderLimit(hits, LAMBDA x, y : Bm25(x, field, clean) >= Bm25(y, field, clean), limit)

\* read_parquet([...]) over several files: the tile files that cannot be read
FailSets(tiles) ==
    IF tiles = <<>> THEN {{}} ELSE {{}, {tiles[1]}, Range(tiles)}


(***************************************************************************)
(* geocode(address, options)                                               *)
(***************************************************************************)
DEFAULT_GEOCODE_LIMIT == 10

\* options.limit ?? dflt   (limit 0 stands for an absent option)
LimitOr(opts, dflt) == IF opts.limit = 0 THEN dflt ELSE opts.limit

\* the JACCARD query is sent: `if (!result) { ... await this.conn.query(...) }`
EnterFallback(call, afterRankedError) ==
    Send([call EXCEPT !.pc = "g_fallback", !.rankedFailed = afterRankedError],
         Query("tiles", call.base, call.tiles))

\* try { ... } catch (ftsError) { result = null }: what a failed ranked step leads to
RankedErrorThrown(call) == Throws(call, "fts")

RankedCatch(call) == EnterFallback(call, TRUE)

\* the body of geocode() up to its first await
GeocodeBody(c, call) ==
    IF NotInitialized
    THEN /\ calls' = [calls EXCEPT ![c] = Throws(call, "not_initialized")]
         /\ UNCHANGED tileIndex
    ELSE LET opts  == call.a
             clean == EscapeQuotes(toWesternDigits(Trim(opts.text)))
             cand  == GeocodeCandidates(tileIndex, opts)
             cap   == GeocodeCap(cand, opts, tileIndex)
             ready == [call EXCEPT !.base = dataUrl, !.clean = clean,
                                   !.limit = LimitOr(opts, DEFAULT_GEOCODE_LIMIT),
                                   !.tiles = TileIds(cap.list),
                                   !.isArabic = IsArabic(clean)]
         IN  IF cand.list = <<>>
             THEN /\ calls' = [calls EXCEPT ![c] = Returns(call, <<>>)]
                  /\ UNCHANGED tileIndex
             ELSE /\ tileIndex' = cap.catalog
                  /\ calls' = [calls EXCEPT ![c] =
                       IF ftsAvailable
                       THEN Send([ready EXCEPT !.pc = "g_create", !.table = now],
                                 Query("create_table", dataUrl, ready.tiles))
                       ELSE EnterFallback(ready, FALSE)]

BoxSmall == <<20000, 40200, 21000, 40400>>
BoxAll   == <<16300, 34500, 32200, 55700>>
BoxNone  == <<0, 0, 1000, 1000>>

T_king     == <<107, 105, 110, 103>>
T_st       == <<115, 116>>
T_ar       == <<1588, 1575, 1585, 1593>>
T_arDigits == <<1633, 1634>>
T_wild     == <<107, 105, 110, 103, 95, 115, 116>>
T_k        == <<107>>

GeocodeTexts == {T_king, T_ar, T_arDigits, T_wild, T_k}

Opts(bbox, region, limit) ==
    [NoArgs EXCEPT !.bbox = bbox, !.region = region, !.limit = limit]

GeocodeOptions ==
    {Opts(NoBbox, NoRegion, 0), Opts(BoxSmall, NoRegion, 0), Opts(BoxSmall, NoRegion, 1),
     Opts(BoxAll, NoRegion, 0), Opts(BoxNone, NoRegion, 0), Opts(NoBbox, "ar:Makkah", 0),
     Opts(BoxSmall, "ar:Makkah", 0)}

GeocodeStartOn(c, texts, options) ==
    /\ Free(c)
    /\ \E text \in Inputs(texts), opts \in Inputs(options) :
         GeocodeBody(c, NewCall("geocode", [opts EXCEPT !.text = text]))
    /\ UNCHANGED <<regionVars, ctorUrl, dataUrl, initialized, ftsAvailable, postcodeIndex,
                   loadedTiles, conn, views, tables, now, indexBase>>

GeocodeStart(c) == GeocodeStartOn(c, GeocodeTexts, GeocodeOptions)

\* CREATE OR REPLACE TABLE fts_search_<now> AS SELECT ... FROM read_parquet([...])
GeocodeCreateTable(c) ==
    /\ calls[c].pc = "g_create"
    /\ LET call == calls[c]
       IN \E ok \in BOOLEAN :
            IF ok
            THEN /\ tables' = MapSet(tables, call.table,
                                     [tiles |-> call.tiles,
                                      field |-> AddressField(call.isArabic),
                                      indexed |-> FALSE])
                 /\ calls' = [calls EXCEPT ![c] =
                                Send([call EXCEPT !.pc = "g_index"],
                                     Query("create_fts_index", "", <<>>))]
            ELSE /\ calls' = [calls EXCEPT ![c] = RankedCatch(call)]
                 /\ UNCHANGED tables
    /\ UNCHANGED <<regionVars, ctorUrl, dataUrl, initialized, ftsAvailable, tileIndex,
                   postcodeIndex, loadedTiles, conn, views, now, indexBase>>

\* PRAGMA create_fts_index(<table>, addr_id, <field>, stemmer=...): needs the
\* table, with the field, and no index on it yet
GeocodeCreateIndex(c) ==
    /\ calls[c].pc = "g_index"
    /\ LET call == calls[c]
       IN \E ok \in BOOLEAN :
            IF /\ ok
               /\ call.table \in DOMAIN tables
               /\ ~tables[call.table].indexed
            THEN /\ tables' = [tables EXCEPT ![call.table].indexed = TRUE,
                                             ![call.table].field = AddressField(call.isArabic)]
                 /\ calls' = [calls EXCEPT ![c] =
                                Send([call EXCEPT !.pc = "g_bm25"], Query("bm25", "", <<>>))]
            ELSE /\ calls' = [calls EXCEPT ![c] = RankedCatch(call)]
                 /\ UNCHANGED tables
    /\ UNCHANGED <<regionVars, ctorUrl, dataUrl, initialized, ftsAvailable, tileIndex,
                   postcodeIndex, loadedTiles, conn, views, now, indexBase>>

\* SELECT ..., fts_main_<table>.match_bm25(...) AS similarity FROM <table>
\* WHERE similarity IS NOT NULL ORDER BY similarity DESC LIMIT <limit>
GeocodeBM25(c) ==
    /\ calls[c].pc = "g_bm25"
    /\ LET call == calls[c]
       IN \E ok \in BOOLEAN :
            IF /\ ok
               /\ call.table \in DOMAIN tables
               /\ tables[call.table].indexed
               /\ tables[call.table].field = AddressField(call.isArabic)
            THEN \E rows \in RankedAnswers(tables[call.table].tiles,
                                           AddressField(call.isArabic),
                                           call.clean, call.limit) :
                   calls' = [calls EXCEPT ![c] =
                               Send([call EXCEPT !.pc = "g_drop", !.res = rows],
                                    Query("drop_table", "", <<>>))]
            ELSE calls' = [calls EXCEPT ![c] = RankedCatch([call EXCEPT !.res = <<>>])]
    /\ UNCHANGED <<regionVars, ctorUrl, sdkVars, now>>

MapRemove(map, key) == [k \in DOMAIN map \ {key} |-> map[k]]

\* DROP TABLE IF EXISTS <table>; then the BM25 rows are returned
GeocodeDropTable(c) ==
    /\ calls[c].pc = "g_drop"
    /\ LET call == calls[c]
       IN \E ok \in BOOLEAN :
            IF ok
            THEN /\ tables' = MapRemove(tables, call.table)
                 /\ calls' = [calls EXCEPT ![c] = Returns([call EXCEPT !.via = "bm25"], call.res)]
            ELSE /\ calls' = [calls EXCEPT ![c] = RankedCatch([call EXCEPT !.res = <<>>])]
                 /\ UNCHANGED tables
    /\ UNCHANGED <<regionVars, ctorUrl, dataUrl, initialized, ftsAvailable, tileIndex,
                   postcodeIndex, loadedTiles, conn, views, now, indexBase>>

\* the JACCARD query over read_parquet([...]); an error of it is not caught
GeocodeFallback(c) ==
    /\ calls[c].pc = "g_fallback"
    /\ LET call == calls[c]
       IN \E failed \in FailSets(call.tiles) :
            IF failed = {}
            THEN \E rows \in FallbackAnswers(call.tiles, AddressField(call.isArabic),
                                             call.isArabic, call.clean, call.limit) :
                   calls' = [calls EXCEPT ![c] = Returns([call EXCEPT !.via = "jaccard"], rows)]
            ELSE calls' = [calls EXCEPT ![c] =
                             Throws([call EXCEPT !.failed = failed], "backend")]
    /\ UNCHANGED <<regionVars, ctorUrl, sdkVars, now>>

(***************************************************************************)
(* geocodeFTS(query, options)                                              *)
(***************************************************************************)
GeocodeFTSStart(c) ==
    /\ Free(c)
    /\ \E text \in {T_king}, opts \in Inputs({Opts(BoxSmall, NoRegion, 0), Opts(BoxNone, NoRegion, 0)}) :
         LET call == NewCall("geocodeFTS", [opts EXCEPT !.text = text])
         IN  calls' = [calls EXCEPT ![c] =
                IF NotInitialized THEN Throws(call, "not_initialized")
                ELSE Send([call EXCEPT !.pc = "f_load"], Query("load_fts", "", <<>>))]
    /\ UNCHANGED <<regionVars, ctorUrl, sdkVars, now>>

\* try { await query('LOAD fts;') } catch { return this.geocode(...) }
\* return this.geocode(...)
GeocodeFTSLoaded(c) ==
    /\ calls[c].pc = "f_load"
    /\ \E ok \in BOOLEAN : GeocodeBody(c, calls[c])
    /\ UNCHANGED <<regionVars, ctorUrl, dataUrl, initialized, ftsAvailable, postcodeIndex,
                   loadedTiles, conn, views, tables, now, indexBase>>


(***************************************************************************)
(* The country gate and the spatial grid (backend functions)               *)
(***************************************************************************)
\* the quick bounding box check: lon < 34.5 || lon > 55.7 || lat < 16.3 || lat > 32.2
OutsideBoxLonOnly(lat, lon) == lon < 34500 \/ lon > 55700

OutsideBox(lat, lon) == lon < 34500 \/ lon > 55700 \/ lat < 16300 \/ lat > 32200

\* ST_Contains(geometry, ST_Point(lon, lat)) for the row iso_a2 = 'SA'
InPolygon(lat, lon) == lat >= 17000 /\ lat <= 31500 /\ lon >= 36000 /\ lon <= 55000

\* h3_latlng_to_cell(lat, lon, H3_TILE_RESOLUTION)
CellOf(lat, lon) == 1000 * ((lat \div 1000) - 20) + ((lon - 40000) \div 200)

\* h3_grid_disk(cell, 1): the cell itself and the cells around it
GridDisk(cell) == <<cell, cell - 1, cell + 1>>

\* this.tileIndex.find((t) => t.h3_tile === h3Tile) / .some(...)
InCatalogAny(idx, tile) == TRUE

InCatalog(idx, tile) == \E i \in 1..Len(idx) : Tile(idx[i]).h3_tile = tile

(***************************************************************************)
(* reverseGeocode(lat, lon, options)                                       *)
(***************************************************************************)
DEFAULT_REVERSE_LIMIT == 10
DEFAULT_RADIUS == 1000

\* 1000 * cos(lat), lat in thousandths of a degree
CosPerMille(lat) == 1000 - (((lat \div 100) * (lat \div 100) * 1523) \div 1000000)

\* radiusKm / 110.574 and radiusKm / (111.32 * cos(lat)), in thousandths of a degree
LatDelta(radiusMeters) == (radiusMeters * 1000) \div 110574

LonDelta(radiusMeters, lat) == (radiusMeters * 1000) \div ((111320 * CosPerMille(lat)) \div 1000)

Abs(x) == IF x < 0 THEN -x ELSE x

\* the square of distance_m, in units of 10 m (the order of the haversine distances)
Dist2(id, lat, lon) ==
    LET dy == (Abs(Row(id).latitude - lat) * 111) \div 10
        dx == (((Abs(Row(id).longitude - lon) * 111) \div 10) * CosPerMille(lat)) \div 1000
    IN  dx * dx + dy * dy

RadiusOr(r) == IF r = 0 THEN DEFAULT_RADIUS ELSE r

\* WHERE longitude BETWEEN lon - lonDelta AND lon + lonDelta AND latitude BETWEEN ...
InSearchBoxLonOnly(id, lat, lon, radiusMeters) ==
    Abs(Row(id).longitude - lon) <= LonDelta(radiusMeters, lat)

InSearchBox(id, lat, lon, radiusMeters) ==
    /\ Abs(Row(id).longitude - lon) <= LonDelta(radiusMeters, lat)
    /\ Abs(Row(id).latitude - lat) <= LatDelta(radiusMeters)

\* the tile query of reverseGeocode: ORDER BY distance_m LIMIT <limit>
ReverseAnswers(tiles, lat, lon, radiusMeters, limit) ==
    OrderLimit({r \in RowsOf(tiles) : InSearchBox(r[2], lat, lon, radiusMeters)},
               LAMBDA x, y : Dist2(x, lat, lon) <= Dist2(y, lat, lon),
               limit)

P_ocean  == [lat |-> 0,     lon |-> 0]
P_box    == [lat |-> 25000, lon |-> 35000]
P_tile1  == [lat |-> 20500, lon |-> 40302]
P_edge   == [lat |-> 20500, lon |-> 40402]
P_notile == [lat |-> 30000, lon |-> 52000]
P_mid    == [lat |-> 20550, lon |-> 40300]

Points == {P_ocean, P_box, P_tile1, P_edge, P_notile, P_mid}

ROpts(limit, radius, neighbors) ==
    [NoArgs EXCEPT !.limit = limit, !.radius = radius, !.includeNeighbors = neighbors]

DetailLevels == {"minimal", "postcode", "region", "full"}

ReverseOptions ==
    {ROpts(0, 0, FALSE), ROpts(0, 20000, TRUE), ROpts(1, 20000, FALSE)}
    \cup {[ROpts(0, 20000, FALSE) EXCEPT !.detailLevel = level] : level \in DetailLevels}

\* options.detailLevel ?? 'full'
DetailOr(level) == IF level = "" THEN "full" ELSE level

baseColumns == {"addr_id", "longitude", "latitude"}

\* getColumnsForDetailLevel(level): the columns of the SELECT list
getColumnsForDetailLevel(level) ==
    CASE level = "minimal"  -> baseColumns
      [] level = "postcode" -> baseColumns \cup {"postcode", "region_ar", "region_en"}
      [] level = "region"   -> baseColumns \cup {"postcode", "district_ar", "district_en",
                                                  "city", "region_ar", "region_en"}
      [] OTHER              -> {"*"}

\* mapResultsToGeocodingResult(rows, detailLevel): the keys of each record
mapResultsAlwaysFull(level) ==
    {"addr_id", "longitude", "latitude", "distance_m", "number", "street", "postcode",
     "district_ar", "district_en", "city", "gov_ar", "gov_en", "region_ar", "region_en",
     "full_address_ar", "full_address_en", "h3_index"}

mapResultsToGeocodingResult(level) ==
    LET result == {"addr_id", "longitude", "latitude", "distance_m"}
    IN  CASE level = "minimal"  -> result
          [] level = "postcode" -> result \cup {"postcode", "region_ar", "region_en"}
          [] level = "region"   -> result \cup {"postcode", "district_ar", "district_en",
                                                 "city", "region_ar", "region_en"}
          [] OTHER              -> result \cup {"number", "street", "postcode", "district_ar",
                                                 "district_en", "city", "gov_ar", "gov_en",
                                                 "region_ar", "region_en", "full_address_ar",
                                                 "full_address_en", "h3_index"}

\* ensureInitialized(); then isInSaudiArabia(lat, lon): its quick bounding box
\* check answers without a query, otherwise the polygon query is sent
ReverseStart(c) ==
    /\ Free(c)
    /\ \E p \in Inputs(Points), opts \in Inputs(ReverseOptions) :
         LET call == NewCall("reverseGeocode", [opts EXCEPT !.lat = p.lat, !.lon = p.lon])
         IN  calls' = [calls EXCEPT ![c] =
                IF NotInitialized THEN Throws(call, "not_initialized")
                ELSE IF OutsideBox(p.lat, p.lon) THEN Returns(call, <<>>)
                ELSE Send([call EXCEPT !.pc = "r_polygon",
                                       !.limit = LimitOr(opts, DEFAULT_REVERSE_LIMIT)],
                          Query("polygon", "", <<>>))]
    /\ UNCHANGED <<regionVars, ctorUrl, sdkVars, now>>

\* if (!inSA) return [];
GateNeverRejects(inSA) == FALSE

GateRejects(inSA) == ~inSA

\* the polygon query answered: if (!inSA) return []; else getH3TileForPoint
ReversePolygon(c) ==
    /\ calls[c].pc = "r_polygon"
    /\ LET call == calls[c]
       IN \E ok \in BOOLEAN :
            calls' = [calls EXCEPT ![c] =
               IF ~ok THEN Throws(call, "backend")
               ELSE IF GateRejects(InPolygon(call.a.lat, call.a.lon)) THEN Returns(call, <<>>)
               ELSE Send([call EXCEPT !.pc = "r_cell"], Query("cell", "", <<>>))]
    /\ UNCHANGED <<regionVars, ctorUrl, sdkVars, now>>

\* the tile query of reverseGeocode is sent for tilesToQuery
ReverseSendTiles(call, tilesToQuery) ==
    Send([call EXCEPT !.pc = "r_tiles", !.base = dataUrl, !.tiles = tilesToQuery,
                      !.columns = getColumnsForDetailLevel(DetailOr(call.a.detailLevel))],
         Query("tiles", dataUrl, tilesToQuery))

\* the cell is known: tileIndex.find(...); no tile -> []; then the neighbours
\* are asked for, or the tile is queried
ReverseCell(c) ==
    /\ calls[c].pc = "r_cell"
    /\ LET call   == calls[c]
           h3Tile == CellOf(call.a.lat, call.a.lon)
           found  == [call EXCEPT !.h3Tile = h3Tile]
       IN \E ok \in BOOLEAN :
            calls' = [calls EXCEPT ![c] =
               IF ~ok THEN Throws(call, "backend")
               ELSE IF ~InCatalog(tileIndex, h3Tile) THEN Returns(found, <<>>)
               ELSE IF call.a.includeNeighbors
                    THEN Send([found EXCEPT !.pc = "r_disk"], Query("grid_disk", "", <<>>))
                    ELSE ReverseSendTiles(found, <<h3Tile>>)]
    /\ UNCHANGED <<regionVars, ctorUrl, sdkVars, now>>

\* for (const neighbor of neighbors) if (in catalog) tilesToQuery.push(neighbor)
NeighborTiles(idx, h3Tile, neighbors) ==
    <<h3Tile>> \o SelectSeq(neighbors, LAMBDA n : InCatalog(idx, n))

ReverseNeighbors(c) ==
    /\ calls[c].pc = "r_disk"
    /\ LET call == calls[c]
       IN \E ok \in BOOLEAN :
            calls' = [calls EXCEPT ![c] =
               IF ~ok THEN Throws(call, "backend")
               ELSE ReverseSendTiles(call, NeighborTiles(tileIndex, call.h3Tile,
                                                         GridDisk(call.h3Tile)))]
    /\ UNCHANGED <<regionVars, ctorUrl, sdkVars, now>>

\* this.loadedTiles.add(h3Tile)
LoadedOnlyLast(loaded, h3Tile) == {h3Tile}

LoadedAdd(loaded, h3Tile) == loaded \cup {h3Tile}

\* the tile query answered: this.loadedTiles.add(h3Tile); return the rows
ReverseTiles(c) ==
    /\ calls[c].pc = "r_tiles"
    /\ LET call == calls[c]
       IN \E failed \in FailSets(call.tiles) :
            IF failed = {}
            THEN /\ loadedTiles' = LoadedAdd(loadedTiles, call.h3Tile)
                 /\ \E rows \in ReverseAnswers(call.tiles, call.a.lat, call.a.lon,
                                               RadiusOr(call.a.radius), call.limit) :
                      calls' = [calls EXCEPT ![c] =
                         Returns([call EXCEPT !.fields =
                                    mapResultsToGeocodingResult(DetailOr(call.a.detailLevel))],
                                 rows)]
            ELSE /\ calls' = [calls EXCEPT ![c] =
                                Throws([call EXCEPT !.failed = failed], "backend")]
                 /\ UNCHANGED loadedTiles
    /\ UNCHANGED <<regionVars, ctorUrl, dataUrl, initialized, ftsAvailable, tileIndex,
                   postcodeIndex, conn, views, tables, now, indexBase>>


(***************************************************************************)
(* searchByPostcode(postcode, options)                                     *)
(***************************************************************************)
DEFAULT_POSTCODE_LIMIT == 50

\* string order of ORDER BY
RECURSIVE LexLeq(_, _)
LexLeq(a, b) ==
    IF a = <<>> THEN TRUE
    ELSE IF b = <<>> THEN FALSE
    ELSE IF Head(a) < Head(b) THEN TRUE
    ELSE IF Head(a) > Head(b) THEN FALSE
    ELSE LexLeq(Tail(a), Tail(b))

\* options.number ? toWesternDigits(options.number.trim()) : undefined
NormalizedNumber(number) == IF number = <<>> THEN <<>> ELSE toWesternDigits(Trim(number))

\* the key of this.postcodeIndex.get(...)
PostcodeKey(postcode) == toWesternDigits(Trim(postcode))

\* postcodeInfo = this.postcodeIndex.get(key); if (!postcodeInfo) return []
PostcodeInfoNoMiss(map, key) ==
    [found |-> TRUE, tiles |-> IF key \in DOMAIN map THEN map[key].tiles ELSE <<>>]

PostcodeInfoOf(map, key) ==
    IF key \in DOMAIN map THEN [found |-> TRUE, tiles |-> map[key].tiles]
    ELSE [found |-> FALSE, tiles |-> <<>>]

\* the literal of the predicate  WHERE postcode = '...'
PostcodeLiteral(postcode) == postcode

\* the statement over read_parquet([...]): a list without files may be refused
StatementFailures(tiles) == IF tiles = <<>> THEN {{}, {0}} ELSE FailSets(tiles)

\* WHERE postcode = '<pred>' [AND number = '<numPred>'] ORDER BY number LIMIT <limit>
PostcodeAnswers(tiles, pred, numPred, limit) ==
    OrderLimit({r \in RowsOf(tiles) :
                  /\ Row(r[2]).postcode = pred
                  /\ numPred # <<>> => Row(r[2]).number = numPred},
               LAMBDA x, y : LexLeq(Row(x).number, Row(y).number),
               limit)

PostcodeInputs == {PC12, <<1633, 1634>>, <<1777, 1778>>, <<32, 49, 50, 32>>, PC34, PC56, <<57, 57>>}
NumberInputs == {NUM7, <<1639>>, <<32, 56>>}

\* <<postcode, options.number, options.limit>>
PostcodeCalls ==
    (PostcodeInputs \X {<<>>, <<1639>>} \X {0}) \cup {<<PC12, <<>>, 1>>}

SearchByPostcodeStart(c) ==
    /\ Free(c)
    /\ \E in \in Inputs(PostcodeCalls) :
         LET postcode == in[1]
             number   == in[2]
             call == NewCall("searchByPostcode",
                             [NoArgs EXCEPT !.text = postcode, !.number = number, !.limit = in[3]])
             info == PostcodeInfoOf(postcodeIndex, PostcodeKey(postcode))
         IN  calls' = [calls EXCEPT ![c] =
                IF NotInitialized THEN Throws(call, "not_initialized")
                ELSE IF ~info.found THEN Returns(call, <<>>)
                ELSE Send([call EXCEPT !.pc = "p_tiles", !.base = dataUrl,
                                       !.tiles = info.tiles,
                                       !.limit = LimitOr(call.a, DEFAULT_POSTCODE_LIMIT),
                                       !.pred = PostcodeLiteral(postcode),
                                       !.numPred = EscapeQuotes(NormalizedNumber(number))],
                          Query("tiles", dataUrl, info.tiles))]
    /\ UNCHANGED <<regionVars, ctorUrl, sdkVars, now>>

SearchByPostcodeTiles(c) ==
    /\ calls[c].pc = "p_tiles"
    /\ LET call == calls[c]
       IN \E failed \in StatementFailures(call.tiles) :
            IF failed = {}
            THEN \E rows \in PostcodeAnswers(call.tiles, call.pred, call.numPred, call.limit) :
                   calls' = [calls EXCEPT ![c] = Returns(call, rows)]
            ELSE calls' = [calls EXCEPT ![c] = Throws([call EXCEPT !.failed = failed], "backend")]
    /\ UNCHANGED <<regionVars, ctorUrl, sdkVars, now>>

(***************************************************************************)
(* searchByNumber(number, options)                                         *)
(***************************************************************************)
DEFAULT_NUMBER_LIMIT == 20
UNFILTERED_TILES == 20

\* region first, then bbox, then this.tileIndex.slice(0, 20)
NumberCandidatesBboxFirst(idx, opts) ==
    IF opts.bbox # NoBbox
    THEN SelectSeq(idx, LAMBDA t : BboxOverlap(t, opts.bbox))
    ELSE IF opts.region # NoRegion
    THEN SelectSeq(idx, LAMBDA t : RegionMatch(t, opts.region))
    ELSE Slice(idx, UNFILTERED_TILES)

NumberCandidates(idx, opts) ==
    IF opts.region # NoRegion
    THEN SelectSeq(idx, LAMBDA t : RegionMatch(t, opts.region))
    ELSE IF opts.bbox # NoBbox
    THEN SelectSeq(idx, LAMBDA t : BboxOverlap(t, opts.bbox))
    ELSE Slice(idx, UNFILTERED_TILES)

\* WHERE number = '<cleanNumber>' ORDER BY postcode, street LIMIT <limit>
NumberAnswers(tiles, cleanNumber, limit) ==
    OrderLimit({r \in RowsOf(tiles) : Row(r[2]).number = cleanNumber},
               LAMBDA x, y : \/ Row(x).postcode # Row(y).postcode
                                /\ LexLeq(Row(x).postcode, Row(y).postcode)
                             \/ Row(x).postcode = Row(y).postcode
                                /\ LexLeq(Row(x).street, Row(y).street),
               limit)

NumberOptions ==
    {Opts(NoBbox, NoRegion, 0), Opts(NoBbox, "Riyadh", 0), Opts(BoxSmall, NoRegion, 0),
     Opts(BoxSmall, NoRegion, 1), Opts(BoxAll, "Riyadh", 0), Opts(NoBbox, "Nowhere", 0),
     Opts(BoxNone, NoRegion, 0)}

SearchByNumberStart(c) ==
    /\ Free(c)
    /\ \E number \in Inputs(NumberInputs), opts \in Inputs(NumberOptions) :
         LET call  == NewCall("searchByNumber", [opts EXCEPT !.number = number])
             tiles == TileIds(NumberCandidates(tileIndex, opts))
         IN  calls' = [calls EXCEPT ![c] =
                IF NotInitialized THEN Throws(call, "not_initialized")
                ELSE IF tiles = <<>> THEN Returns(call, <<>>)
                ELSE Send([call EXCEPT !.pc = "n_tiles", !.base = dataUrl, !.tiles = tiles,
                                       !.limit = LimitOr(opts, DEFAULT_NUMBER_LIMIT),
                                       !.numPred = EscapeQuotes(toWesternDigits(Trim(number)))],
                          Query("tiles", dataUrl, tiles))]
    /\ UNCHANGED <<regionVars, ctorUrl, sdkVars, now>>

SearchByNumberTiles(c) ==
    /\ calls[c].pc = "n_tiles"
    /\ LET call == calls[c]
       IN \E failed \in FailSets(call.tiles) :
            IF failed = {}
            THEN \E rows \in NumberAnswers(call.tiles, call.numPred, call.limit) :
                   calls' = [calls EXCEPT ![c] = Returns(call, rows)]
            ELSE calls' = [calls EXCEPT ![c] = Throws([call EXCEPT !.failed = failed], "backend")]
    /\ UNCHANGED <<regionVars, ctorUrl, sdkVars, now>>

(***************************************************************************)
(* isInSaudiArabia, detectCountry, getAdminHierarchy: the answer is in via *)
(***************************************************************************)
\* inside the longitudes of the box, south of it
P_south == [lat |-> 10000, lon |-> 45000]

GatePoints == {P_ocean, P_box, P_tile1, P_notile, P_south}

\* isInSaudiArabia(lat, lon) called by the user
IsInSaudiArabiaStart(c) ==
    /\ Free(c)
    /\ \E p \in Inputs(GatePoints) :
         LET call == NewCall("isInSaudiArabia", [NoArgs EXCEPT !.lat = p.lat, !.lon = p.lon])
         IN  calls' = [calls EXCEPT ![c] =
                IF NotInitialized THEN Throws(call, "not_initialized")
                ELSE IF OutsideBox(p.lat, p.lon) THEN Returns([call EXCEPT !.via = "false"], <<>>)
                ELSE Send([call EXCEPT !.pc = "s_polygon"], Query("polygon", "", <<>>))]
    /\ UNCHANGED <<regionVars, ctorUrl, sdkVars, now>>

\* return result.toArray().length > 0
IsInSaudiArabiaAnswer(c) ==
    /\ calls[c].pc = "s_polygon"
    /\ LET call == calls[c]
       IN \E ok \in BOOLEAN :
            calls' = [calls EXCEPT ![c] =
               IF ~ok THEN Throws(call, "backend")
               ELSE Returns([call EXCEPT !.via = IF InPolygon(call.a.lat, call.a.lon)
                                                 THEN "true" ELSE "false"], <<>>)]
    /\ UNCHANGED <<regionVars, ctorUrl, sdkVars, now>>

\* the row of world_countries whose geometry contains the point
CountryAt(lat, lon) ==
    IF InPolygon(lat, lon) THEN "SA"
    ELSE IF OutsideBox(lat, lon) THEN "null" ELSE "other"

\* detectCountry(lat, lon)
DetectCountryStart(c) ==
    /\ Free(c)
    /\ \E p \in Inputs(GatePoints) :
         LET call == NewCall("detectCountry", [NoArgs EXCEPT !.lat = p.lat, !.lon = p.lon])
         IN  calls' = [calls EXCEPT ![c] =
                IF NotInitialized THEN Throws(call, "not_initialized")
                ELSE Send([call EXCEPT !.pc = "d_country"], Query("detect_country", "", <<>>))]
    /\ UNCHANGED <<regionVars, ctorUrl, sdkVars, now>>

\* if (rows.length === 0) return null; else the row
DetectCountryAnswer(c) ==
    /\ calls[c].pc = "d_country"
    /\ LET call == calls[c]
       IN \E ok \in BOOLEAN :
            calls' = [calls EXCEPT ![c] =
               IF ~ok THEN Throws(call, "backend")
               ELSE Returns([call EXCEPT !.via = CountryAt(call.a.lat, call.a.lon)], <<>>)]
    /\ UNCHANGED <<regionVars, ctorUrl, sdkVars, now>>

\* the rows of sa_districts and of sa_regions that contain the point
InDistrict(lat, lon) == InPolygon(lat, lon) /\ lat <= 25000

InRegion(lat, lon) == InPolygon(lat, lon)

\* getAdminHierarchy(lat, lon): the district query is sent
GetAdminHierarchyStart(c) ==
    /\ Free(c)
    /\ \E p \in Inputs(GatePoints) :
         LET call == NewCall("getAdminHierarchy", [NoArgs EXCEPT !.lat = p.lat, !.lon = p.lon])
         IN  calls' = [calls EXCEPT ![c] =
                IF NotInitialized THEN Throws(call, "not_initialized")
                ELSE Send([call EXCEPT !.pc = "h_district"], Query("district", "", <<>>))]
    /\ UNCHANGED <<regionVars, ctorUrl, sdkVars, now>>

\* a district row: {district, region}; none: the region query is sent
GetAdminHierarchyDistrict(c) ==
    /\ calls[c].pc = "h_district"
    /\ LET call == calls[c]
       IN \E ok \in BOOLEAN :
            calls' = [calls EXCEPT ![c] =
               IF ~ok THEN Throws(call, "backend")
               ELSE IF InDistrict(call.a.lat, call.a.lon)
                    THEN Returns([call EXCEPT !.via = "district+region"], <<>>)
                    ELSE Send([call EXCEPT !.pc = "h_region"], Query("region", "", <<>>))]
    /\ UNCHANGED <<regionVars, ctorUrl, sdkVars, now>>

\* a region row: {region}; none: {}
GetAdminHierarchyRegion(c) ==
    /\ calls[c].pc = "h_region"
    /\ LET call == calls[c]
       IN \E ok \in BOOLEAN :
            calls' = [calls EXCEPT ![c] =
               IF ~ok THEN Throws(call, "backend")
               ELSE Returns([call EXCEPT !.via = IF InRegion(call.a.lat, call.a.lon)
                                                 THEN "region" ELSE "empty"], <<>>)]
    /\ UNCHANGED <<regionVars, ctorUrl, sdkVars, now>>

(***************************************************************************)
(* The synchronous readers                                                 *)
(***************************************************************************)
\* getTilesForBbox(minLat, minLon, maxLat, maxLon)
GetTilesForBbox(c) ==
    /\ Free(c)
    /\ \E bbox \in {BoxSmall, BoxAll, BoxNone} :
         calls' = [calls EXCEPT ![c] =
            Returns(NewCall("getTilesForBbox", [NoArgs EXCEPT !.bbox = bbox]),
                    TileIds(SelectSeq(tileIndex, LAMBDA t : BboxOverlap(t, bbox))))]
    /\ UNCHANGED <<regionVars, ctorUrl, sdkVars, now>>

\* getTilesByRegion(region)
GetTilesByRegion(c) ==
    /\ Free(c)
    /\ \E region \in {"Riyadh", "ar:Makkah", "Nowhere"} :
         calls' = [calls EXCEPT ![c] =
            Returns(NewCall("getTilesByRegion", [NoArgs EXCEPT !.region = region]),
                    TileIds(SelectSeq(tileIndex, LAMBDA t : RegionMatch(t, region))))]
    /\ UNCHANGED <<regionVars, ctorUrl, sdkVars, now>>

\* s.startsWith(prefix)
StartsWith(s, prefix) == Len(prefix) <= Len(s) /\ SubSeq(s, 1, Len(prefix)) = prefix

\* getPostcodes(prefix?): the entries, here by their postcodes
GetPostcodes(c) ==
    /\ Free(c)
    /\ \E prefix \in {<<>>, <<49>>} :
         calls' = [calls EXCEPT ![c] =
            Returns([NewCall("getPostcodes", [NoArgs EXCEPT !.text = prefix])
                       EXCEPT !.failed = {k \in DOMAIN postcodeIndex :
                                            prefix # <<>> => StartsWith(k, prefix)}],
                    <<>>)]
    /\ UNCHANGED <<regionVars, ctorUrl, sdkVars, now>>

RECURSIVE SumOf(_, _)
SumOf(list, i) == IF i > Len(list) THEN 0 ELSE list[i] + SumOf(list, i + 1)

\* getStats(): <<tilesLoaded, totalTiles, totalAddresses, totalSizeKb>>
GetStats(c) ==
    /\ Free(c)
    /\ LET call == NewCall("getStats", NoArgs)
       IN calls' = [calls EXCEPT ![c] =
            IF NotInitialized THEN Throws(call, "not_initialized")
            ELSE Returns(call,
                   <<Cardinality(loadedTiles), Len(tileIndex),
                     SumOf([i \in 1..Len(tileIndex) |-> Tile(tileIndex[i]).addr_count], 1),
                     SumOf([i \in 1..Len(tileIndex) |-> Tile(tileIndex[i]).file_size_kb], 1)>>)]
    /\ UNCHANGED <<regionVars, ctorUrl, sdkVars, now>>

(***************************************************************************)
(* One caller: the next call starts when the one before has settled.       *)
(***************************************************************************)
\* the caller has the outcome of the call; the slot is free again
Settle(c) ==
    /\ calls[c].pc = "done"
    /\ calls' = [calls EXCEPT ![c] = IdleCall]
    /\ UNCHANGED <<regionVars, ctorUrl, sdkVars, now>>

Next ==
    \E c \in Calls :
          \/ Settle(c)
          \/ InitializeStart(c) \/ InitWasm(c) \/ InitExtension(c) \/ InitFts(c)
          \/ InitTiles(c) \/ InitTilesFallback(c) \/ InitPostcodes(c) \/ InitView(c)
          \/ Close(c)
          \/ GeocodeStart(c) \/ GeocodeCreateTable(c) \/ GeocodeCreateIndex(c)
          \/ GeocodeBM25(c) \/ GeocodeDropTable(c) \/ GeocodeFallback(c)
          \/ GeocodeFTSStart(c) \/ GeocodeFTSLoaded(c)
          \/ ReverseStart(c) \/ ReversePolygon(c) \/ ReverseCell(c)
          \/ ReverseNeighbors(c) \/ ReverseTiles(c)
          \/ SearchByPostcodeStart(c) \/ SearchByPostcodeTiles(c)
          \/ SearchByNumberStart(c) \/ SearchByNumberTiles(c)
          \/ GetTilesForBbox(c) \/ GetTilesByRegion(c) \/ GetPostcodes(c) \/ GetStats(c)
          \/ IsInSaudiArabiaStart(c) \/ IsInSaudiArabiaAnswer(c)
          \/ DetectCountryStart(c) \/ DetectCountryAnswer(c)
          \/ GetAdminHierarchyStart(c) \/ GetAdminHierarchyDistrict(c)
          \/ GetAdminHierarchyRegion(c)

Spec == Init /\ [][Next]_vars

(***************************************************************************)
(* Two callers of geocode on one initialized instance: each await is a     *)
(* point where the other call, or the clock, may move.                     *)
(***************************************************************************)
CallsConc == {1, 2}

\* the instance after new GeoSDKH3() and an initialize() that found the
\* ranked-search extension
InitConc ==
    /\ ctorUrl = DEFAULT_DATA_URL
    /\ dataUrl = DEFAULT_DATA_URL
    /\ initialized = TRUE
    /\ ftsAvailable = TRUE
    /\ tileIndex = LoadTileIndex(TileIndexFile(DEFAULT_DATA_URL))
    /\ postcodeIndex = LoadPostcodes(<<>>, PostcodeIndexFile)
    /\ loadedTiles = {}
    /\ conn = "open"
    /\ views = {"world_countries", "sa_regions", "sa_districts"}
    /\ tables = <<>>
    /\ now = 0
    /\ calls = [c \in CallsConc |-> IdleCall]
    /\ indexBase = DEFAULT_DATA_URL
    /\ NoRegionSdk

GeocodeStartConc(c) ==
    GeocodeStartOn(c, {T_king}, {Opts(BoxSmall, NoRegion, 0), Opts(NoBbox, "Riyadh", 0)})

NextConc ==
    \/ Tick
    \/ \E c \in CallsConc :
          \/ Settle(c)
          \/ GeocodeStartConc(c) \/ GeocodeCreateTable(c) \/ GeocodeCreateIndex(c)
          \/ GeocodeBM25(c) \/ GeocodeDropTable(c) \/ GeocodeFallback(c)

SpecConc == InitConc /\ [][NextConc]_vars

(***************************************************************************)
(* Two callers of initialize() on a new instance: the second call may      *)
(* start while the first one is at an await.                               *)
(***************************************************************************)
InitOverlap ==
    /\ ctorUrl \in {CUSTOM_URL, DEFAULT_DATA_URL}
    /\ dataUrl = ctorUrl
    /\ initialized = FALSE
    /\ ftsAvailable = FALSE
    /\ tileIndex = <<>>
    /\ postcodeIndex = <<>>
    /\ loadedTiles = {}
    /\ conn = "null"
    /\ views = {}
    /\ tables = <<>>
    /\ now = 0
    /\ calls = [c \in CallsConc |-> IdleCall]
    /\ indexBase = ""
    /\ NoRegionSdk

NextOverlap ==
    \E c \in CallsConc :
          \/ Settle(c)
          \/ InitializeStart(c) \/ InitWasm(c) \/ InitExtension(c) \/ InitFts(c)
          \/ InitTiles(c) \/ InitTilesFallback(c) \/ InitPostcodes(c) \/ InitView(c)

SpecOverlap == InitOverlap /\ [][NextOverlap]_vars

(***************************************************************************)
(* The region SDKs: GeoSDKLazy (geocoder-lazy.ts) and GeoSDK (geocoder.ts) *)
(* keep one addresses table and insert the file of a region into it when a *)
(* call first needs the region.  loadRegion and geocode are the same in    *)
(* both classes; loadRegionsForPoint is public in GeoSDKLazy, suggest is a *)
(* method of GeoSDK.  A text is a sequence of words here.                  *)
(***************************************************************************)
h3Vars == <<ctorUrl, dataUrl, initialized, ftsAvailable, tileIndex, postcodeIndex,
            loadedTiles, conn, views, tables, now, calls, indexBase>>

\* the word that region names begin with, and the region_ar of three regions
REGION_WORD == "region"
RIYADH == <<REGION_WORD, "Riyadh">>
MAKKAH == <<REGION_WORD, "Makkah">>
TABUK  == <<REGION_WORD, "Tabuk">>

\* region_index.parquet has a file for two regions
RegionIndexFile == <<RIYADH, MAKKAH>>

\* the rows of sa_districts
DistrictRows ==
    << [region_ar |-> MAKKAH, name_ar |-> <<"Aziziyah">>, city |-> <<"Jeddah">>,
        gov_ar |-> <<"Jeddah">>],
       [region_ar |-> TABUK, name_ar |-> <<"Muruj">>, city |-> <<"Tabuk">>,
        gov_ar |-> <<"Tabuk">>] >>

\* name_ar of the row of sa_regions whose polygon contains the point (LIMIT 1)
RegionAt(lat, lon) ==
    IF ~InPolygon(lat, lon) THEN <<>>
    ELSE IF lat <= 25000 THEN RIYADH ELSE TABUK

RegionCallers == {1, 2}

RegionNoArgs == [region |-> <<>>, address |-> <<>>, lat |-> 0, lon |-> 0]

RegionIdleCall ==
    [op |-> "none", pc |-> "idle", a |-> RegionNoArgs,
     todo |-> <<>>, after |-> "none", region |-> <<>>, last |-> FALSE,
     detected |-> <<>>, word |-> 0, out |-> "none", inserted |-> <<>>]

RegionNewCall(opName, args) == [RegionIdleCall EXCEPT !.op = opName, !.a = args]

RegionReturns(call) == [call EXCEPT !.pc = "done", !.out = "ok"]

RegionThrows(call) == [call EXCEPT !.pc = "done", !.out = "error"]

\* this.regionIndex.find((r) => r.region_ar === regionAr)
InRegionIndex(idx, regionAr) == \E i \in 1..Len(idx) : idx[i] = regionAr

\* the loadRegion calls of a method, one after the other, up to the first
\* INSERT that has to be awaited: loadRegion(r) returns true at once when
\* loadedRegions has r and false when the index has no such region; `last` is
\* what the last loadRegion returned.  When no call is left the method goes on
\* (after): loadRegion and loadRegionsForPoint return, geocode sends its
\* query, suggest loads the default region when no region is loaded.
RECURSIVE LoadNext(_, _, _)
LoadNext(call, idx, loaded) ==
    IF call.todo # <<>>
    THEN LET regionAr == Head(call.todo)
             rest     == [call EXCEPT !.todo = Tail(@)]
         IN  IF regionAr \in loaded THEN LoadNext([rest EXCEPT !.last = TRUE], idx, loaded)
             ELSE IF ~InRegionIndex(idx, regionAr)
                  THEN LoadNext([rest EXCEPT !.last = FALSE], idx, loaded)
                  ELSE [rest EXCEPT !.pc = "l_insert", !.region = regionAr]
    ELSE CASE call.after = "return" -> RegionReturns(call)
           [] call.after = "suggest" ->
                IF loaded = {}
                THEN LoadNext([call EXCEPT !.todo = <<RIYADH>>, !.after = "query"], idx, loaded)
                ELSE [call EXCEPT !.pc = "l_query"]
           [] OTHER -> [call EXCEPT !.pc = "l_query"]

\* loadRegion(regionAr)
LoadRegionStart(c) ==
    /\ regionCalls[c].pc = "idle"
    /\ \E regionAr \in {RIYADH, MAKKAH, TABUK} :
         regionCalls' = [regionCalls EXCEPT ![c] =
            LoadNext([RegionNewCall("loadRegion", [RegionNoArgs EXCEPT !.region = regionAr])
                        EXCEPT !.todo = <<regionAr>>, !.after = "return"],
                     regionIndex, loadedRegions)]
    /\ UNCHANGED <<h3Vars, regionIndex, loadedRegions, addresses>>

\* INSERT INTO addresses SELECT * FROM read_parquet(<file of the region>);
\* this.loadedRegions.add(regionAr); return true
LoadRegionInsert(c) ==
    /\ regionCalls[c].pc = "l_insert"
    /\ LET call == regionCalls[c]
       IN \E ok \in BOOLEAN :
            IF ok
            THEN /\ addresses' = [addresses EXCEPT ![call.region] = @ + 1]
                 /\ loadedRegions' = loadedRegions \cup {call.region}
                 /\ regionCalls' = [regionCalls EXCEPT ![c] =
                       LoadNext([call EXCEPT !.last = TRUE,
                                             !.inserted = Append(@, call.region)],
                                regionIndex, loadedRegions \cup {call.region})]
            ELSE /\ regionCalls' = [regionCalls EXCEPT ![c] = RegionThrows(call)]
                 /\ UNCHANGED <<addresses, loadedRegions>>
    /\ UNCHANGED <<h3Vars, regionIndex>>

\* loadRegionsForPoint(lat, lon): isInSaudiArabia first
LoadRegionsForPointStart(c) ==
    /\ regionCalls[c].pc = "idle"
    /\ \E p \in {P_ocean, P_box, P_tile1, P_notile} :
         LET call == RegionNewCall("loadRegionsForPoint",
                                   [RegionNoArgs EXCEPT !.lat = p.lat, !.lon = p.lon])
         IN  regionCalls' = [regionCalls EXCEPT ![c] =
                IF OutsideBox(p.lat, p.lon) THEN RegionReturns(call)
                ELSE [call EXCEPT !.pc = "lp_polygon"]]
    /\ UNCHANGED <<h3Vars, regionIndex, loadedRegions, addresses>>

\* the polygon query answered: if (!inSA) return []; else the sa_regions query
LoadRegionsForPointPolygon(c) ==
    /\ regionCalls[c].pc = "lp_polygon"
    /\ LET call == regionCalls[c]
       IN \E ok \in BOOLEAN :
            regionCalls' = [regionCalls EXCEPT ![c] =
               IF ~ok THEN RegionThrows(call)
               ELSE IF ~InPolygon(call.a.lat, call.a.lon) THEN RegionReturns(call)
               ELSE [call EXCEPT !.pc = "lp_region"]]
    /\ UNCHANGED <<h3Vars, regionIndex, loadedRegions, addresses>>

\* the sa_regions query answered: no row -> []; else loadRegion(regionName)
LoadRegionsForPointRegion(c) ==
    /\ regionCalls[c].pc = "lp_region"
    /\ LET call       == regionCalls[c]
           regionName == RegionAt(call.a.lat, call.a.lon)
       IN \E ok \in BOOLEAN :
            regionCalls' = [regionCalls EXCEPT ![c] =
               IF ~ok THEN RegionThrows(call)
               ELSE IF regionName = <<>> THEN RegionReturns(call)
               ELSE LoadNext([call EXCEPT !.todo = <<regionName>>, !.after = "return"],
                             regionIndex, loadedRegions)]
    /\ UNCHANGED <<h3Vars, regionIndex, loadedRegions, addresses>>

\* r.region_ar.replace(<the region word and a blank>, '')
RECURSIVE RemoveFirst(_, _)
RemoveFirst(text, w) ==
    IF text = <<>> THEN <<>>
    ELSE IF Head(text) = w THEN Tail(text)
    ELSE <<Head(text)>> \o RemoveFirst(Tail(text), w)

\* detectRegionsFromAddress, step 1: the regions of the index that the
\* address names, with or without the region word
DetectByName(idx, address) ==
    SelectSeq(idx, LAMBDA r : \/ Contains(address, r)
                              \/ Contains(address, RemoveFirst(r, REGION_WORD)))

\* detectedRegions.add(row.region_ar) for the rows whose region is in the index
RECURSIVE AddRegions(_, _, _)
AddRegions(detected, rows, idx) ==
    IF rows = <<>> THEN detected
    ELSE AddRegions(IF /\ InRegionIndex(idx, Head(rows).region_ar)
                       /\ Head(rows).region_ar \notin Range(detected)
                    THEN Append(detected, Head(rows).region_ar) ELSE detected,
                    Tail(rows), idx)

\* step 2: WHERE name_ar LIKE '%addr%' OR city LIKE '%addr%' OR gov_ar LIKE '%addr%'
AdminRows(address) ==
    SelectSeq(DistrictRows, LAMBDA row : \/ Contains(row.name_ar, address)
                                         \/ Contains(row.city, address)
                                         \/ Contains(row.gov_ar, address))

\* step 3: WHERE city LIKE '%word%' OR gov_ar LIKE '%word%'
WordRows(word) ==
    SelectSeq(DistrictRows, LAMBDA row : \/ Contains(row.city, <<word>>)
                                         \/ Contains(row.gov_ar, <<word>>))

\* address.split(/\s+/).filter((w) => w.length > 2): "al" is the short word
LongWords(address) == SelectSeq(address, LAMBDA w : w # "al")

\* the regions are detected: load them, or the default region when none is
\* detected and none is loaded; then the query
RegionGeocodeLoad(call, detected, idx, loaded) ==
    IF detected # <<>>
    THEN LoadNext([call EXCEPT !.detected = detected, !.todo = detected, !.after = "query"],
                  idx, loaded)
    ELSE IF loaded = {}
    THEN LoadNext([call EXCEPT !.todo = <<RIYADH>>, !.after = "query"], idx, loaded)
    ELSE [call EXCEPT !.pc = "l_query"]

RegionAddresses ==
    {<<"Riyadh">>, <<"Riyadh", "Makkah">>, <<"Jeddah">>, <<"Tabuk">>, <<"al", "Nakheel">>}

\* geocode(address, {region})
RegionGeocodeStart(c) ==
    /\ regionCalls[c].pc = "idle"
    /\ \E address \in RegionAddresses, regionAr \in {<<>>, MAKKAH, TABUK} :
         LET call == RegionNewCall("geocode", [RegionNoArgs EXCEPT !.address = address,
                                                                   !.region = regionAr])
             byName == DetectByName(regionIndex, address)
         IN  regionCalls' = [regionCalls EXCEPT ![c] =
                IF regionAr # <<>>
                THEN LoadNext([call EXCEPT !.todo = <<regionAr>>, !.after = "query"],
                              regionIndex, loadedRegions)
                ELSE IF byName # <<>>
                THEN RegionGeocodeLoad(call, byName, regionIndex, loadedRegions)
                ELSE [call EXCEPT !.pc = "g_admin"]]
    /\ UNCHANGED <<h3Vars, regionIndex, loadedRegions, addresses>>

\* the sa_districts query for the whole address answered; an error of it or
\* of a word query ends the detection with what was found (try/catch)
RegionGeocodeAdmin(c) ==
    /\ regionCalls[c].pc = "g_admin"
    /\ LET call     == regionCalls[c]
           detected == AddRegions(<<>>, AdminRows(call.a.address), regionIndex)
       IN \E ok \in BOOLEAN :
            regionCalls' = [regionCalls EXCEPT ![c] =
               IF ~ok THEN RegionGeocodeLoad(call, <<>>, regionIndex, loadedRegions)
               ELSE IF LongWords(call.a.address) = <<>>
                    THEN RegionGeocodeLoad(call, detected, regionIndex, loadedRegions)
                    ELSE [call EXCEPT !.pc = "g_word", !.detected = detected, !.word = 1]]
    /\ UNCHANGED <<h3Vars, regionIndex, loadedRegions, addresses>>

\* the sa_districts query for one word answered
RegionGeocodeWord(c) ==
    /\ regionCalls[c].pc = "g_word"
    /\ LET call     == regionCalls[c]
           words    == LongWords(call.a.address)
           detected == AddRegions(call.detected, WordRows(words[call.word]), regionIndex)
       IN \E ok \in BOOLEAN :
            regionCalls' = [regionCalls EXCEPT ![c] =
               IF ~ok THEN RegionGeocodeLoad(call, call.detected, regionIndex, loadedRegions)
               ELSE IF call.word < Len(words)
                    THEN [call EXCEPT !.detected = detected, !.word = @ + 1]
                    ELSE RegionGeocodeLoad(call, detected, regionIndex, loadedRegions)]
    /\ UNCHANGED <<h3Vars, regionIndex, loadedRegions, addresses>>

\* suggest(partial, {region}): if (cleanPartial.length < 2) return []
SuggestStart(c) ==
    /\ regionCalls[c].pc = "idle"
    /\ \E partial \in {<<>>, <<"Nakheel">>}, regionAr \in {<<>>, MAKKAH} :
         LET call == RegionNewCall("suggest", [RegionNoArgs EXCEPT !.address = partial,
                                                                   !.region = regionAr])
         IN  regionCalls' = [regionCalls EXCEPT ![c] =
                IF partial = <<>> THEN RegionReturns(call)
                ELSE LoadNext([call EXCEPT
                                 !.todo = IF regionAr # <<>> THEN <<regionAr>> ELSE <<>>,
                                 !.after = "suggest"],
                              regionIndex, loadedRegions)]
    /\ UNCHANGED <<h3Vars, regionIndex, loadedRegions, addresses>>

\* the SELECT ... FROM addresses of geocode and of suggest answered
RegionQuery(c) ==
    /\ regionCalls[c].pc = "l_query"
    /\ \E ok \in BOOLEAN :
         regionCalls' = [regionCalls EXCEPT ![c] =
            IF ok THEN RegionReturns(@) ELSE RegionThrows(@)]
    /\ UNCHANGED <<h3Vars, regionIndex, loadedRegions, addresses>>

RegionSettle(c) ==
    /\ regionCalls[c].pc = "done"
    /\ regionCalls' = [regionCalls EXCEPT ![c] = RegionIdleCall]
    /\ UNCHANGED <<h3Vars, regionIndex, loadedRegions, addresses>>

\* the region SDK after its constructor and initialize(): the region index is
\* loaded and the addresses table is empty; no GeoSDKH3 call is made
InitRegions ==
    /\ ctorUrl = DEFAULT_DATA_URL
    /\ dataUrl = DEFAULT_DATA_URL
    /\ initialized = FALSE
    /\ ftsAvailable = FALSE
    /\ tileIndex = <<>>
    /\ postcodeIndex = <<>>
    /\ loadedTiles = {}
    /\ conn = "null"
    /\ views = {}
    /\ tables = <<>>
    /\ now = 0
    /\ calls = [c \in Calls |-> IdleCall]
    /\ indexBase = ""
    /\ regionIndex = RegionIndexFile
    /\ loadedRegions = {}
    /\ addresses = [r \in Range(RegionIndexFile) |-> 0]
    /\ regionCalls = [c \in RegionCallers |-> RegionIdleCall]

NextRegions ==
    \E c \in RegionCallers :
          \/ RegionSettle(c)
          \/ LoadRegionStart(c) \/ LoadRegionInsert(c)
          \/ LoadRegionsForPointStart(c) \/ LoadRegionsForPointPolygon(c)
          \/ LoadRegionsForPointRegion(c)
          \/ RegionGeocodeStart(c) \/ RegionGeocodeAdmin(c) \/ RegionGeocodeWord(c)
          \/ SuggestStart(c)
          \/ RegionQuery(c)

SpecRegions == InitRegions /\ [][NextRegions]_vars


(***************************************************************************)
(* Properties                                                              *)
(***************************************************************************)
GeocodeOps == {"geocode", "geocodeFTS"}

TileOps == GeocodeOps \cup {"reverseGeocode", "searchByPostcode", "searchByNumber"}

QueryOps == TileOps \cup {"getTilesForBbox", "getTilesByRegion", "getPostcodes", "getStats"}

\* the methods that begin with this.ensureInitialized()
GuardedOps == TileOps \cup {"detectCountry", "getAdminHierarchy", "isInSaudiArabia", "getStats"}

\* the call got past ensureInitialized()
Admitted(call) == call.op # "none" /\ call.err # "not_initialized"

Done(call) == call.pc = "done"

\* C1: when a step of the ranked attempt of geocode fails (creating the table,
\* building the index, the BM25 query or the drop), the same query over the
\* same partitions is sent through the fallback search within the same call,
\* the caller gets the outcome of the fallback, and the error of the ranked
\* attempt is never thrown to the caller.
C1_RankedFailureFallsBack ==
    \A c \in DOMAIN calls :
        LET call == calls[c]
        IN  call.op \in GeocodeOps =>
              /\ call.err # "fts"
              /\ call.rankedFailed =>
                   /\ call.pc \in {"g_fallback", "done"}
                   /\ Sent(call, {"tiles"}) = <<Query("tiles", call.base, call.tiles)>>
                   /\ Sent(call, {"create_table"}) =
                         <<Query("create_table", call.base, call.tiles)>>
                   /\ (Done(call) /\ call.out = "ok") =>
                         /\ call.via = "jaccard"
                         /\ call.res \in FallbackAnswers(call.tiles,
                                                         AddressField(call.isArabic),
                                                         call.isArabic, call.clean, call.limit)
                   /\ (Done(call) /\ call.out = "error") => call.err = "backend"

\* a ranked attempt failed and the caller has rows of the fallback search
C1_Witness ==
    \E c \in DOMAIN calls :
        /\ calls[c].op = "geocode" /\ Done(calls[c]) /\ calls[c].rankedFailed
        /\ calls[c].out = "ok" /\ calls[c].via = "jaccard" /\ calls[c].res # <<>>

\* C2: when the tile index cannot be read from a custom base URL, initialize
\* makes exactly one more attempt, against DEFAULT_DATA_URL; when that one
\* succeeds config.dataUrl is DEFAULT_DATA_URL and the postcode index, the
\* three boundary datasets and every later tile fetch use the default base;
\* when the configured base is the default one already there is no second
\* attempt and the error of the first one is what initialize throws.
C2_FallbackToDefaultUrl ==
    /\ \A c \in DOMAIN calls :
         LET call == calls[c]
             idx  == Sent(call, {"tile_index"})
             rest == Sent(call, {"postcode_index", "world_countries",
                                 "sa_regions", "sa_districts"})
         IN  call.op = "initialize" =>
               /\ Len(idx) <= 2
               /\ Len(idx) = 2 => /\ idx[1].base = CUSTOM_URL
                                  /\ idx[1].base = ctorUrl
                                  /\ idx[2].base = DEFAULT_DATA_URL
               /\ call.err = "tile_index" => /\ Len(idx) = 1
                                             /\ idx[1].base = DEFAULT_DATA_URL
               /\ (call.pc = "i_tiles2" \/ call.err = "tile_index_both") => Len(idx) = 2
               /\ (Len(idx) = 2 /\ call.pc # "i_tiles2" /\ call.err # "tile_index_both") =>
                     /\ dataUrl = DEFAULT_DATA_URL
                     /\ rest # <<>>
                     /\ \A i \in 1..Len(rest) : rest[i].base = DEFAULT_DATA_URL
    /\ indexBase = DEFAULT_DATA_URL =>
         /\ (initialized => dataUrl = DEFAULT_DATA_URL)
         /\ \A c \in DOMAIN calls :
              calls[c].op \in TileOps =>
                 \A q \in Range(Sent(calls[c], {"tiles", "create_table"})) :
                    q.base = DEFAULT_DATA_URL

\* constructed with a custom URL, initialized through the fallback, and a
\* later call has fetched tiles from the default base
C2_Witness ==
    /\ ctorUrl = CUSTOM_URL /\ initialized /\ dataUrl = DEFAULT_DATA_URL
    /\ indexBase = DEFAULT_DATA_URL
    /\ \E c \in DOMAIN calls :
         /\ calls[c].op = "reverseGeocode" /\ Done(calls[c]) /\ calls[c].out = "ok"
         /\ Sent(calls[c], {"tiles"}) # <<>>

\* C3: in an operation that reads several partitions, a backend error on one
\* of them does not abort the operation: the call fails only when no
\* partition gave data.
C3_PartialFailureTolerated ==
    \A c \in DOMAIN calls :
        LET call == calls[c]
        IN  (/\ call.op \in TileOps
             /\ Done(call)
             /\ call.failed # {}
             /\ call.failed \subseteq Range(call.tiles)
             /\ call.failed # Range(call.tiles)) => call.out = "ok"

\* C4: searchByPostcode normalizes the digits of the postcode: the lookup in
\* the postcode index and the exact-match predicate of the tile query both use
\* toWesternDigits(trim(p)), so the call answers as the call with the
\* normalized postcode does.
C4_PostcodeNormalized ==
    \A c \in DOMAIN calls :
        LET call == calls[c]
            key  == PostcodeKey(call.a.text)
        IN  (call.op = "searchByPostcode" /\ Sent(call, {"tiles"}) # <<>>) =>
              /\ call.pred = key
              /\ (Done(call) /\ call.out = "ok") =>
                    call.res \in PostcodeAnswers(call.tiles, key, call.numPred, call.limit)

\* C5: for a postcode that the postcode index does not have, searchByPostcode
\* on an initialized SDK returns the empty list, throws nothing and sends no
\* tile query to the backend.
C5_UnknownPostcode ==
    \A c \in DOMAIN calls :
        LET call == calls[c]
        IN  (/\ call.op = "searchByPostcode"
             /\ Admitted(call)
             /\ PostcodeKey(call.a.text) \notin DOMAIN postcodeIndex) =>
              /\ Done(call) /\ call.out = "ok" /\ call.res = <<>>
              /\ call.sent = <<>>

\* the index has postcodes, the one asked for is not among them
C5_Witness ==
    \E c \in DOMAIN calls :
        /\ calls[c].op = "searchByPostcode" /\ Admitted(calls[c]) /\ Done(calls[c])
        /\ postcodeIndex # <<>>
        /\ PostcodeKey(calls[c].a.text) \notin DOMAIN postcodeIndex
        /\ calls[c].out = "ok"

\* C6: in reverseGeocode, geocode, searchByPostcode and searchByNumber, when
\* the resolution of the partitions gives no candidate the call returns the
\* empty list and no tile query goes to the backend; so it is for
\* searchByPostcode when the entry of the postcode has an empty tiles list.
C6_NoCandidatesNoQuery ==
    \A c \in DOMAIN calls :
        LET call == calls[c]
        IN  call.op \in TileOps =>
              /\ \A q \in Range(Sent(call, {"tiles", "create_table"})) : q.tiles # <<>>
              /\ (Admitted(call) /\ call.sent = <<>>) =>
                    (Done(call) /\ call.out = "ok" /\ call.res = <<>>)

C8_RankedCallsIsolated ==
    \A c \in DOMAIN calls :
        LET call == calls[c]
        IN  (call.op = "geocode" /\ Done(call) /\ call.via = "bm25") =>
              /\ \A i \in 1..Len(call.res) : Row(call.res[i]).tile \in Range(call.tiles)
              /\ call.res \in RankedAnswers(call.tiles, AddressField(call.isArabic),
                                            call.clean, call.limit)

\* C9: the ranked-search capability is probed once per initialization: no
\* query operation (geocode, geocodeFTS, reverseGeocode, searchByPostcode,
\* searchByNumber) asks the backend to install or load the extension again.
C9_NoReprobe ==
    \A c \in DOMAIN calls :
        calls[c].op \in QueryOps => Sent(calls[c], {"fts", "load_fts"}) = <<>>

\* C10: after initialize() no step of a query operation (geocode, geocodeFTS,
\* reverseGeocode, searchByPostcode, searchByNumber, getTilesForBbox,
\* getTilesByRegion, getPostcodes, getStats) changes the tile catalog, its
\* order included, or the postcode index.
C10_CatalogsReadOnly ==
    [][(\E c \in DOMAIN calls : calls'[c].op \in QueryOps /\ calls'[c] # calls[c])
          => (tileIndex' = tileIndex /\ postcodeIndex' = postcodeIndex)]_vars

\* a geocode call that sorted more than MAX_TILES candidates has answered and
\* the catalog is in the order of the index file
C10_Witness ==
    /\ initialized
    /\ tileIndex = LoadTileIndex(TileIndexFile(DEFAULT_DATA_URL))
    /\ \E c \in DOMAIN calls :
         /\ calls[c].op = "geocode" /\ Done(calls[c]) /\ calls[c].out = "ok"
         /\ calls[c].a.bbox = BoxAll
         /\ Len(calls[c].tiles) = MAX_TILES
         /\ calls[c].tiles # SubSeq(tileIndex, 1, MAX_TILES)

\* C11 as stated: across any sequence of public operations an id that is in
\* loadedTiles is never removed: what a call found in the set is still in it
\* at every later point of the call.
C11_LoadedNeverRemoved ==
    \A c \in DOMAIN calls :
        calls[c].op # "none" => calls[c].loaded0 \subseteq loadedTiles

\* C11: loadedTiles is append-only across every public operation but close():
\* what a call other than close() found in the set is still in it at every
\* later point of the call, so getStats().tilesLoaded does not decrease;
\* close() empties the set.
C11_LoadedAppendOnlyUntilClose ==
    \A c \in DOMAIN calls :
        /\ calls[c].op \notin {"none", "close"} => calls[c].loaded0 \subseteq loadedTiles
        /\ calls[c].op = "close" => loadedTiles = {}
        /\ (calls[c].op = "getStats" /\ calls[c].out = "ok") =>
              calls[c].res[1] = Cardinality(loadedTiles)

\* a reverseGeocode call that found a tile loaded has loaded a second one
C11_Witness ==
    \E c \in DOMAIN calls :
        /\ calls[c].op = "reverseGeocode" /\ Done(calls[c]) /\ calls[c].out = "ok"
        /\ calls[c].loaded0 # {}
        /\ calls[c].h3Tile \notin calls[c].loaded0
        /\ Cardinality(loadedTiles) = 2

\* C12: geocode takes its candidate partitions from the bbox when one is
\* given (the region is then not looked at), else from the region when one is
\* given, else from the whole catalog; every tile it sends to the backend is
\* one of these candidates, in every query of the call, and the tiles are in
\* the first query the call sends, before any ranking.
C12_GeocodeCandidates ==
    \A c \in DOMAIN calls :
        LET call == calls[c]
            opts == call.a
            cands == IF opts.bbox # NoBbox
                     THEN {t \in Range(tileIndex) : BboxOverlap(t, opts.bbox)}
                     ELSE IF opts.region # NoRegion
                     THEN {t \in Range(tileIndex) : RegionMatch(t, opts.region)}
                     ELSE Range(tileIndex)
            reads == Sent(call, {"create_table", "tiles"})
            work  == Sent(call, {"create_table", "tiles", "create_fts_index", "bm25"})
        IN  (call.op \in GeocodeOps /\ Admitted(call) /\ call.pc # "f_load") =>
              /\ \A i \in 1..Len(reads) :
                    /\ reads[i].tiles = call.tiles
                    /\ Range(reads[i].tiles) \subseteq cands
              /\ work # <<>> => work[1].k \in {"create_table", "tiles"}
              /\ cands = {} <=> work = <<>>
              /\ cands = {} => (Done(call) /\ call.out = "ok" /\ call.res = <<>>)

\* bbox and region are both given and the call has read the tiles of the bbox
C12_Witness ==
    \E c \in DOMAIN calls :
        /\ calls[c].op = "geocode" /\ Done(calls[c]) /\ calls[c].out = "ok"
        /\ calls[c].a.bbox = BoxSmall /\ calls[c].a.region = "ar:Makkah"
        /\ 1 \in Range(calls[c].tiles)
        /\ calls[c].res # <<>>

\* a digit of the Arabic-Indic or of the Persian block
IsEasternDigit(ch) == ch \in 1632..1641 \/ ch \in 1776..1785

\* C13: searchByNumber takes its candidate partitions from the region when
\* one is given (the bbox is then not looked at), else from the bbox when one
\* is given, else they are the first 20 tiles of the catalog in catalog order
\* (all of them when there are fewer); the house number of the exact-match
\* predicate is trimmed and digit-normalized, and the rows returned carry it.
C13_NumberCandidates ==
    \A c \in DOMAIN calls :
        LET call == calls[c]
            opts == call.a
            n    == Len(tileIndex)
            expected ==
                IF opts.region # NoRegion
                THEN SelectSeq(tileIndex, LAMBDA t : RegionMatch(t, opts.region))
                ELSE IF opts.bbox # NoBbox
                THEN SelectSeq(tileIndex, LAMBDA t : BboxOverlap(t, opts.bbox))
                ELSE SubSeq(tileIndex, 1, IF n < 20 THEN n ELSE 20)
            reads == Sent(call, {"tiles"})
        IN  (call.op = "searchByNumber" /\ Admitted(call)) =>
              /\ expected = <<>> => (reads = <<>> /\ Done(call) /\ call.res = <<>>)
              /\ expected # <<>> =>
                    /\ reads = <<Query("tiles", dataUrl, expected)>>
                    /\ call.tiles = expected
                    /\ \A i \in 1..Len(call.numPred) : ~IsEasternDigit(call.numPred[i])
                    /\ call.numPred = toWesternDigits(Trim(opts.number))
                    /\ (Done(call) /\ call.out = "ok") =>
                          \A i \in 1..Len(call.res) : Row(call.res[i]).number = call.numPred

\* no filter, a number in Arabic-Indic digits: the first 20 tiles were read and
\* rows with the Western number came back
C13_Witness ==
    \E c \in DOMAIN calls :
        /\ calls[c].op = "searchByNumber" /\ Done(calls[c]) /\ calls[c].out = "ok"
        /\ calls[c].a.region = NoRegion /\ calls[c].a.bbox = NoBbox
        /\ Len(tileIndex) > 20 /\ Len(calls[c].tiles) = 20
        /\ calls[c].a.number = <<1639>>
        /\ calls[c].res # <<>>

\* C14: every list that reverseGeocode returns is in non-decreasing order of
\* distance_m, has at most limit records (10 when no limit is given), and each
\* of its records lies within lon +- lonDelta and lat +- latDelta of the query
\* point, the deltas computed from radiusMeters (1000 when none is given).
C14_ReverseSortedLimitedBoxed ==
    \A c \in DOMAIN calls :
        LET call   == calls[c]
            lat    == call.a.lat
            lon    == call.a.lon
            limit  == IF call.a.limit = 0 THEN 10 ELSE call.a.limit
            radius == IF call.a.radius = 0 THEN 1000 ELSE call.a.radius
            res    == call.res
        IN  (call.op = "reverseGeocode" /\ Done(call) /\ call.out = "ok") =>
              /\ Len(res) <= limit
              /\ \A i, j \in 1..Len(res) :
                    i < j => Dist2(res[i], lat, lon) <= Dist2(res[j], lat, lon)
              /\ \A i \in 1..Len(res) :
                    /\ Abs(Row(res[i]).longitude - lon) <= LonDelta(radius, lat)
                    /\ Abs(Row(res[i]).latitude - lat) <= LatDelta(radius)

\* two records at different distances came back, the nearer one first, and a
\* record of the tiles read was left out by the box
C14_Witness ==
    \E c \in DOMAIN calls :
        /\ calls[c].op = "reverseGeocode" /\ Done(calls[c]) /\ calls[c].out = "ok"
        /\ Len(calls[c].res) >= 2
        /\ Dist2(calls[c].res[1], calls[c].a.lat, calls[c].a.lon)
              < Dist2(calls[c].res[Len(calls[c].res)], calls[c].a.lat, calls[c].a.lon)
        /\ \E r \in RowsOf(calls[c].tiles) : r[2] \notin Range(calls[c].res)

\* C15: in the lists of reverseGeocode, records at equal distance are in
\* ascending order of their id, and the records that the limit leaves out come
\* after the ones returned in the order (distance, id): the answer is fixed by
\* the data.
C15_ReverseTieBreakById ==
    \A c \in DOMAIN calls :
        LET call   == calls[c]
            lat    == call.a.lat
            lon    == call.a.lon
            res    == call.res
            inBox  == {r[2] : r \in {x \in RowsOf(call.tiles) :
                                        InSearchBox(x[2], lat, lon, RadiusOr(call.a.radius))}}
            Before(x, y) == \/ Dist2(x, lat, lon) < Dist2(y, lat, lon)
                            \/ Dist2(x, lat, lon) = Dist2(y, lat, lon) /\ x < y
        IN  (call.op = "reverseGeocode" /\ Done(call) /\ call.out = "ok") =>
              /\ \A i, j \in 1..Len(res) : i < j => ~Before(res[j], res[i])
              /\ \A x \in inBox \ Range(res) : \A i \in 1..Len(res) : ~Before(x, res[i])

\* C16: with ftsAvailable = false the rows of geocode come from the fallback
\* search: the tokens are the pieces of the cleaned query between whitespace,
\* commas and Arabic commas that have 2 characters or more, the first 5 of
\* them; each returned record has a non-null address in the field of the
\* detected script and, unless there is no token, that address holds one of
\* the tokens as a substring (without case for Latin script); the list is in
\* descending similarity and has at most limit records.
C16_FallbackGate ==
    \A c \in DOMAIN calls :
        LET call   == calls[c]
            field  == AddressField(call.isArabic)
            tokens == SearchTerms(call.clean)
            Fold(t) == IF call.isArabic THEN t ELSE Upper(t)
            res    == call.res
        IN  (/\ call.op \in GeocodeOps /\ Done(call) /\ call.out = "ok"
             /\ ~ftsAvailable /\ call.tiles # <<>>) =>
              /\ call.via = "jaccard"
              /\ Len(res) <= call.limit
              /\ \A i \in 1..Len(res) :
                    /\ FieldOf(res[i], field) # NULL
                    /\ tokens # <<>> =>
                          \E k \in 1..Len(tokens) :
                             Contains(Fold(FieldOf(res[i], field)), Fold(tokens[k]))
              /\ \A i, j \in 1..Len(res) :
                    i < j => FracGeq(JaccardOf(res[i], field, call.isArabic, call.clean),
                                     JaccardOf(res[j], field, call.isArabic, call.clean))

\* C17: when initialize() has completed (initialized is true) the tile
\* index, the postcode index and the three boundary datasets are loaded.
C17_InitLoadsAll ==
    initialized =>
        /\ tileIndex # <<>>
        /\ postcodeIndex # <<>>
        /\ views = {"world_countries", "sa_regions", "sa_districts"}

\* C18: while the instance is not initialized (initialize() has not
\* completed, or it failed, or close() was called) geocode, geocodeFTS,
\* reverseGeocode, searchByPostcode, searchByNumber, detectCountry,
\* getAdminHierarchy, isInSaudiArabia and getStats fail with the 'GeoSDK not
\* initialized' error and send nothing to the backend; when initialize() has
\* succeeded again they are not refused.
C18_NotInitializedRefused ==
    \A c \in DOMAIN calls :
        LET call == calls[c]
        IN  call.op \in GuardedOps =>
              /\ ~initialized => /\ Done(call) /\ call.out = "error"
                                 /\ call.err = "not_initialized"
                                 /\ call.sent = <<>>
              /\ initialized => call.err # "not_initialized"

\* after close() a call was refused
C18_Witness ==
    \E c \in DOMAIN calls :
        /\ calls[c].op = "detectCountry" /\ calls[c].err = "not_initialized"
        /\ conn = "closed" /\ tileIndex # <<>>

MinimalFields == {"addr_id", "longitude", "latitude", "distance_m"}

\* C19: the fields of each record that reverseGeocode returns depend on
\* detailLevel only: minimal gives addr_id, longitude, latitude, distance_m
\* and no other field; the field sets grow strictly along minimal, postcode,
\* region, full; and for minimal, postcode and region each field of a record
\* other than distance_m is a column the query of the call selects.
C19_DetailLevelFields ==
    \A c \in DOMAIN calls :
        LET call  == calls[c]
            level == DetailOr(call.a.detailLevel)
            F(l)  == mapResultsToGeocodingResult(l)
        IN  (call.op = "reverseGeocode" /\ Done(call) /\ call.out = "ok"
             /\ call.res # <<>>) =>
              /\ call.fields = F(level)
              /\ level = "minimal" => call.fields = MinimalFields
              /\ F("minimal") \subseteq F("postcode") /\ F("minimal") # F("postcode")
              /\ F("postcode") \subseteq F("region") /\ F("postcode") # F("region")
              /\ F("region") \subseteq F("full") /\ F("region") # F("full")
              /\ level # "full" => (call.fields \ {"distance_m"}) \subseteq call.columns

\* a record of detail level postcode came back
C19_Witness ==
    \E c \in DOMAIN calls :
        /\ calls[c].op = "reverseGeocode" /\ Done(calls[c]) /\ calls[c].out = "ok"
        /\ calls[c].res # <<>>
        /\ calls[c].a.detailLevel = "postcode"
        /\ "postcode" \in calls[c].fields /\ "city" \notin calls[c].fields

\* C20: getTilesForBbox(minLat, minLon, maxLat, maxLon) returns the ids of
\* the catalog tiles with min_lon <= maxLon, max_lon >= minLon, min_lat <=
\* maxLat and max_lat >= minLat (a shared edge is an overlap) and of no other
\* tile; geocode and searchByNumber with the same bbox take their candidates
\* from the same tiles (geocode all of them unless they are more than
\* MAX_TILES).
C20_BboxTiles ==
    \A c \in DOMAIN calls :
        LET call == calls[c]
            bbox == call.a.bbox
            Hit(t) == /\ TileRow(t).min_lon <= bbox[4] /\ TileRow(t).max_lon >= bbox[2]
                      /\ TileRow(t).min_lat <= bbox[3] /\ TileRow(t).max_lat >= bbox[1]
            hits == {t \in Range(tileIndex) : Hit(t)}
        IN  /\ call.op = "getTilesForBbox" =>
                 /\ Done(call) /\ call.out = "ok"
                 /\ Range(call.res) = hits
                 /\ Len(call.res) = Cardinality(hits)
            /\ (call.op \in GeocodeOps /\ bbox # NoBbox /\ call.pc # "f_load"
                /\ Admitted(call)) =>
                 /\ Range(call.tiles) \subseteq hits
                 /\ Cardinality(hits) <= MAX_TILES => Range(call.tiles) = hits
            /\ (call.op = "searchByNumber" /\ bbox # NoBbox /\ call.a.region = NoRegion
                /\ Admitted(call)) =>
                 Range(call.tiles) = hits

\* the box shares only an edge with tile 2, and tile 2 is in the answer
C20_Witness ==
    \E c \in DOMAIN calls :
        /\ calls[c].op = "getTilesForBbox" /\ Done(calls[c])
        /\ calls[c].a.bbox = BoxSmall
        /\ TileRow(2).min_lon = BoxSmall[4]
        /\ calls[c].res = <<1, 2>>
        /\ Len(tileIndex) > 2


\* C21: on an initialized SDK isInSaudiArabia returns false and sends no
\* query for every point with lon < 34.5 or lon > 55.7 or lat < 16.3 or
\* lat > 32.2; the polygon query is sent only for points inside that box (by
\* isInSaudiArabia and by the gate of reverseGeocode), at most once per call,
\* and the answer is true only if the polygon query gave a row.
C21_BoxBeforePolygon ==
    \A c \in DOMAIN calls :
        LET call    == calls[c]
            lat     == call.a.lat
            lon     == call.a.lon
            outside == lon < 34500 \/ lon > 55700 \/ lat < 16300 \/ lat > 32200
            polygon == Sent(call, {"polygon"})
        IN  /\ (call.op = "isInSaudiArabia" /\ Admitted(call)) =>
                 /\ outside => /\ Done(call) /\ call.out = "ok" /\ call.via = "false"
                               /\ call.sent = <<>>
                 /\ ~outside => /\ Len(polygon) = 1 /\ call.sent = polygon
                                /\ call.pc \in {"s_polygon", "done"}
                 /\ call.via = "true" => /\ polygon # <<>>
                                         /\ InPolygon(lat, lon)
                                         /\ Done(call) /\ call.out = "ok"
                 /\ (Done(call) /\ call.out = "ok" /\ ~InPolygon(lat, lon)) =>
                       call.via = "false"
            /\ (call.op \in {"isInSaudiArabia", "reverseGeocode"} /\ polygon # <<>>) =>
                 ~outside

\* a point between the longitudes of the box and south of it was answered
\* false without a query
C21_Witness ==
    \E c \in DOMAIN calls :
        /\ calls[c].op = "isInSaudiArabia" /\ Admitted(calls[c]) /\ Done(calls[c])
        /\ calls[c].a.lat = P_south.lat /\ calls[c].a.lon = P_south.lon
        /\ calls[c].via = "false" /\ calls[c].sent = <<>>


\* C22: when geocode has neither bbox nor region and the catalog has n > 50
\* tiles, the tiles queried are the catalog elements at the indices 0, s, 2s,
\* ... with s = ceil(n / 50), the first 50 of them: at most 50 tiles, the
\* first tile of the catalog among them, and not the first 50 entries of the
\* catalog; when n <= 50 all tiles are queried.
C22_StrideSampling ==
    \A c \in DOMAIN calls :
        LET call == calls[c]
            n    == Len(tileIndex)
            s    == CHOOSE k \in 1..n : 50 * k >= n /\ 50 * (k - 1) < n
            at   == {i \in 0..(n - 1) : i % s = 0}
            m    == IF Cardinality(at) > 50 THEN 50 ELSE Cardinality(at)
        IN  (/\ call.op \in GeocodeOps /\ Admitted(call) /\ call.pc # "f_load"
             /\ call.a.bbox = NoBbox /\ call.a.region = NoRegion /\ n > 0) =>
              /\ n > 50 =>
                    /\ call.tiles = [k \in 1..m |-> tileIndex[(k - 1) * s + 1]]
                    /\ Len(call.tiles) <= 50
                    /\ call.tiles[1] = tileIndex[1]
                    /\ call.tiles # SubSeq(tileIndex, 1, 50)
                    /\ \E k \in 1..Len(call.tiles) :
                          \A i \in 1..50 : call.tiles[k] # tileIndex[i]
              /\ n <= 50 => call.tiles = tileIndex
              /\ \A i \in 1..Len(Sent(call, {"create_table", "tiles"})) :
                    Sent(call, {"create_table", "tiles"})[i].tiles = call.tiles

\* an unfiltered geocode over a catalog of more than 50 tiles has answered from
\* a sample that reaches past the 50th tile
C22_Witness ==
    \E c \in DOMAIN calls :
        /\ calls[c].op = "geocode" /\ Done(calls[c]) /\ calls[c].out = "ok"
        /\ calls[c].a.bbox = NoBbox /\ calls[c].a.region = NoRegion
        /\ Len(tileIndex) > 50
        /\ Len(calls[c].tiles) < Len(tileIndex)
        /\ calls[c].tiles[Len(calls[c].tiles)] = tileIndex[51]
        /\ calls[c].res # <<>>


\* C23: when geocode has a bbox or a region filter and more than 50 tiles
\* match, exactly 50 tiles are queried, each once, and they are the 50 of the
\* smallest file_size_kb among the matching tiles: the file size of every
\* queried tile is at most the file size of every matching tile that is not
\* queried.
C23_SmallestTiles ==
    \A c \in DOMAIN calls :
        LET call  == calls[c]
            opts  == call.a
            Hit(t) == IF opts.bbox # NoBbox
                      THEN /\ TileRow(t).min_lon <= opts.bbox[4]
                           /\ TileRow(t).max_lon >= opts.bbox[2]
                           /\ TileRow(t).min_lat <= opts.bbox[3]
                           /\ TileRow(t).max_lat >= opts.bbox[1]
                      ELSE opts.region \in {TileRow(t).region_ar, TileRow(t).region_en}
            match == {t \in Range(tileIndex) : Hit(t)}
        IN  (/\ call.op \in GeocodeOps /\ Admitted(call) /\ call.pc # "f_load"
             /\ (opts.bbox # NoBbox \/ opts.region # NoRegion)
             /\ Cardinality(match) > 50) =>
              /\ Len(call.tiles) = 50
              /\ Cardinality(Range(call.tiles)) = 50
              /\ Range(call.tiles) \subseteq match
              /\ \A q \in Range(call.tiles) : \A t \in match \ Range(call.tiles) :
                    TileRow(q).file_size_kb <= TileRow(t).file_size_kb
              /\ \A i \in 1..Len(Sent(call, {"create_table", "tiles"})) :
                    Sent(call, {"create_table", "tiles"})[i].tiles = call.tiles

\* a region that 51 tiles of the catalog have: 50 were queried, and the one
\* left out is not the last of the catalog
C23_Witness ==
    \E c \in DOMAIN calls :
        /\ calls[c].op = "geocode" /\ Done(calls[c]) /\ calls[c].out = "ok"
        /\ calls[c].a.bbox = NoBbox /\ calls[c].a.region = "ar:Makkah"
        /\ Len(calls[c].tiles) = 50
        /\ tileIndex[Len(tileIndex)] \in Range(calls[c].tiles)
        /\ Cardinality({t \in Range(tileIndex) : TileRow(t).region_ar = "ar:Makkah"}) = 51


\* C24: geocode searches the Arabic address field (full_address_ar) if and
\* only if the query text the caller supplied has a character of the Arabic
\* block U+0600..U+06FF, and the Latin field (full_address_en) otherwise;
\* this includes the queries whose only characters of the block are
\* Arabic-Indic or Persian digits.
C24_ArabicFieldByCallerText ==
    \A c \in DOMAIN calls :
        LET call     == calls[c]
            supplied == call.a.text
            arabic   == \E i \in 1..Len(supplied) : supplied[i] \in 1536..1791
        IN  (call.op \in GeocodeOps /\ Sent(call, {"create_table", "tiles"}) # <<>>) =>
              /\ AddressField(call.isArabic) =
                    (IF arabic THEN "full_address_ar" ELSE "full_address_en")
              /\ \A t \in DOMAIN tables :
                    (call.table = t /\ call.pc \in {"g_index", "g_bm25", "g_drop"}) =>
                       tables[t].field = AddressField(call.isArabic)


\* C25: every temporary search table (with its text index) that the ranked
\* path of geocode creates is dropped before the call returns, on every path,
\* the one where a ranked step fails and the call falls back included: when a
\* geocode call has returned or thrown its table is not in the backend, and
\* when no call is in flight the backend has no fts_search_* table.
C25_TempTableDropped ==
    /\ \A c \in DOMAIN calls :
         (calls[c].op \in GeocodeOps /\ Done(calls[c])) =>
            calls[c].table \notin DOMAIN tables
    /\ (\A c \in DOMAIN calls : calls[c].pc \in {"idle", "done"}) => DOMAIN tables = {}


\* C26: in reverseGeocode with includeNeighbors = true the list of tiles sent
\* to the backend has the point's own tile and only catalog tiles of its
\* ring-1 grid disk, each tile at most once (the own tile, which the grid
\* disk has too, is not listed twice), so no address row is read and returned
\* twice.
C26_NeighborsOnce ==
    \A c \in DOMAIN calls :
        LET call  == calls[c]
            reads == Sent(call, {"tiles"})
        IN  (call.op = "reverseGeocode" /\ call.a.includeNeighbors /\ reads # <<>>) =>
              /\ Len(reads) = 1
              /\ \A i \in 1..Len(reads[1].tiles) :
                    /\ reads[1].tiles[i] \in Range(GridDisk(call.h3Tile))
                    /\ InCatalog(tileIndex, reads[1].tiles[i])
              /\ call.h3Tile \in Range(reads[1].tiles)
              /\ \A i, j \in 1..Len(reads[1].tiles) :
                    i # j => reads[1].tiles[i] # reads[1].tiles[j]
              /\ \A i, j \in 1..Len(call.res) : i # j => call.res[i] # call.res[j]


\* C27: in every reachable state loadedTiles is a subset of the ids of the
\* tile catalog, so getStats().tilesLoaded <= getStats().totalTiles; the set
\* changes only when the tile query of a reverseGeocode succeeds (the point's
\* own tile is added) and on close(): a reverseGeocode whose query fails or
\* that returns early, geocode, searchByPostcode, searchByNumber and every
\* other operation leave it as they found it.
C27_LoadedWithinCatalog ==
    /\ loadedTiles \subseteq {TileRow(tileIndex[i]).h3_tile : i \in 1..Len(tileIndex)}
    /\ Cardinality(loadedTiles) <= Len(tileIndex)
    /\ \A c \in DOMAIN calls :
         LET call   == calls[c]
             loaded == /\ call.op = "reverseGeocode" /\ Done(call) /\ call.out = "ok"
                       /\ Sent(call, {"tiles"}) # <<>>
         IN  /\ (call.op = "getStats" /\ call.out = "ok") =>
                  /\ call.res[1] = Cardinality(loadedTiles)
                  /\ call.res[2] = Len(tileIndex)
                  /\ call.res[1] <= call.res[2]
             /\ loaded => /\ loadedTiles = call.loaded0 \cup {call.h3Tile}
                          /\ call.h3Tile = CellOf(call.a.lat, call.a.lon)
             /\ (call.op \notin {"none", "close"} /\ ~loaded) => loadedTiles = call.loaded0
             /\ call.op = "close" => loadedTiles = {}

\* two tiles are loaded and getStats has counted them against the catalog
C27_Witness ==
    \E c \in DOMAIN calls :
        /\ calls[c].op = "getStats" /\ Done(calls[c]) /\ calls[c].out = "ok"
        /\ calls[c].res[1] = 2
        /\ calls[c].res[2] = Len(tileIndex)
        /\ loadedTiles = {1, 2}


\* C28: initialize() is effective at most once per instance between closes:
\* a call made after a successful initialize() returns at once and touches
\* neither the backend nor the state, and when two initialize() calls
\* overlap only one backend instance and connection are created, each
\* boundary view is created once (no call finds its view there already)
\* and both calls complete successfully.
C28_InitializeOnce ==
    LET inits   == {c \in DOMAIN calls : calls[c].op = "initialize"}
        created == {c \in inits : Sent(calls[c], {"spatial"}) # <<>>}
    IN  /\ Cardinality(created) <= 1
        /\ \A c \in inits :
             /\ calls[c].err # "view_exists"
             /\ (Done(calls[c]) /\ calls[c].out = "ok") => initialized
             /\ \A name \in {"world_countries", "sa_regions", "sa_districts"} :
                   Len(Sent(calls[c], {name})) <= 1


\* C29: in the region SDKs the rows of each region are inserted into the
\* addresses table at most once per initialization, for any sequence and any
\* interleaving of loadRegion, loadRegionsForPoint, geocode and suggest calls;
\* loadedRegions is a subset of the names of the region index; loadRegion for
\* a name that the index does not have returns false and changes nothing.
C29_RegionInsertedOnce ==
    /\ \A r \in DOMAIN addresses : addresses[r] <= 1
    /\ loadedRegions \subseteq Range(regionIndex)
    /\ \A c \in DOMAIN regionCalls :
         LET call == regionCalls[c]
         IN  (call.op = "loadRegion" /\ call.a.region \notin Range(regionIndex)) =>
                /\ call.pc = "done" /\ call.out = "ok" /\ ~call.last
                /\ call.inserted = <<>>


\* C30: if initialize() fails at any step (loading an extension, the tile
\* index from both URLs, creating a boundary view) the instance is left in
\* the observable state of a newly constructed one: initialized is false,
\* getTiles() and getPostcodes() are empty, isFTSAvailable() is false and
\* config.dataUrl is what the constructor set; a later initialize() can run
\* the whole sequence again.
C30_FailedInitLeavesFresh ==
    \A c \in DOMAIN calls :
        (calls[c].op = "initialize" /\ Done(calls[c]) /\ calls[c].out = "error") =>
           /\ ~initialized
           /\ tileIndex = <<>>
           /\ postcodeIndex = <<>>
           /\ ~ftsAvailable
           /\ dataUrl = ctorUrl


=============================================================================
